---- MODULE Spec2Model ----
(***************************************************************************)
(* Event-processing pipeline of prague-family-events: the scoring engine   *)
(* (services/scoring.ts), the deduplication engine                         *)
(* (services/deduplication.ts), the geocoding cache                        *)
(* (services/geocoding.ts), the weather cache (services/weather.ts), the   *)
(* scraper orchestrator (scrapers/index.ts) and the daily workflow         *)
(* (cron/daily-scrape.ts).                                                 *)
(*                                                                         *)
(* Conventions.  Times are whole hours since 1970-01-01T00:00 in the       *)
(* server's time zone.  Distances are tenths of a kilometre (the code      *)
(* rounds to one decimal place).  Text the code compares character by      *)
(* character (titles, addresses, location names) is a sequence of          *)
(* one-character strings.  An optional number that is absent is Undef; an  *)
(* optional text that is absent is the empty sequence, which JavaScript    *)
(* treats like undefined wherever the code tests these fields.             *)
(***************************************************************************)
EXTENDS Integers, Sequences, FiniteSets, TLC

VARIABLES
  \* --- scoring engine, evaluated on one record -------------------------
  sEvent,      \* the GeocodedEvent handed to the scoring engine
  sPhase,      \* "input" | "scored" | "scoredAll"
  sGroup,      \* the AgeGroup of the last scoreEvent call
  sWeather,    \* the weather argument of the last call
  sResult,     \* the {score, factors} returned by scoreEvent
  sScored,     \* the ScoredEvent returned by scoreEventForAllGroups
  \* --- deduplication engine, evaluated on one list ---------------------
  dEvents,     \* the RawEvent list handed to deduplicateEvents
  dThreshold,  \* the threshold, in tenths
  dPhase,      \* "input" | "compared" | "once" | "twice"
  dPair,       \* the index pair of the last calculateDuplicateScore calls
  dScore,      \* calculateDuplicateScore(events[i], events[j])
  dTitleSim,   \* the title similarity of events[i] and events[j]
  dOut,        \* deduplicateEvents(dEvents, dThreshold)
  dOut2,       \* deduplicateEvents(dOut, dThreshold)
  \* --- the daily workflow and its collaborators ------------------------
  run,           \* per run: the position and the locals of runDailyScrape
  started,       \* the number of runs started so far
  store,         \* the rows of the events table (persistence collaborator)
  auditLog,      \* the rows of the scrapeLog table, in order of creation
  geocodeCache,  \* geocoding.ts: the module-level Map, by cache key
  geoRequests,   \* the number of requests sent to the geocoder, by cache key
  weatherCache,  \* weather.ts: the cached forecast (set = FALSE when null)
  cacheTimestamp,\* weather.ts: when the forecast was cached
  apiKey,        \* whether OPENWEATHER_API_KEY is configured
  now,           \* the clock
  ticks,         \* the number of days the clock has advanced
  faults         \* the number of collaborator failures so far

scoreVars == <<sEvent, sPhase, sGroup, sWeather, sResult, sScored>>
dedupVars == <<dEvents, dThreshold, dPhase, dPair, dScore, dTitleSim, dOut, dOut2>>
pipeVars == <<run, started, store, auditLog, geocodeCache, geoRequests,
              weatherCache, cacheTimestamp, apiKey, now, ticks, faults>>

-----------------------------------------------------------------------------
(* JavaScript values *)

\* an optional number that is undefined (or null)
Undef == -1

\* truthiness of an optional number: undefined and 0 are falsy
Truthy(x) == x # Undef /\ x # 0

Min2(a, b) == IF a <= b THEN a ELSE b
Max2(a, b) == IF a >= b THEN a ELSE b

-----------------------------------------------------------------------------
(* Date accessors of a time in whole hours *)

DayOf(t) == t \div 24
\* Date.getHours()
getHours(t) == t % 24
\* Date.getDay(): 0 = Sunday .. 6 = Saturday (1970-01-01 was a Thursday)
getDay(t) == (DayOf(t) + 4) % 7
\* the civil date <<year, month 1..12, day>> of a day number
CivilOf(z0) ==
  LET z   == z0 + 719468
      era == z \div 146097
      doe == z - era * 146097
      yoe == (doe - doe \div 1460 + doe \div 36524 - doe \div 146096) \div 365
      doy == doe - (365 * yoe + yoe \div 4 - yoe \div 100)
      mp  == (5 * doy + 2) \div 153
      d   == doy - (153 * mp + 2) \div 5 + 1
      m   == IF mp < 10 THEN mp + 3 ELSE mp - 9
      y   == yoe + era * 400 + (IF m <= 2 THEN 1 ELSE 0)
  IN <<y, m, d>>
\* Date.getMonth(): 0 = January .. 11 = December
getMonth(t) == CivilOf(DayOf(t))[2] - 1
\* format(date, 'yyyy-MM-dd')
formatDate(t) == CivilOf(DayOf(t))

-----------------------------------------------------------------------------
(* Text *)

UpperCase == {"A", "B", "C", "D", "E", "F", "G", "H", "I", "J", "K", "L", "M",
              "N", "O", "P", "Q", "R", "S", "T", "U", "V", "W", "X", "Y", "Z"}
LowerOf(c) ==
  CASE c = "A" -> "a" [] c = "B" -> "b" [] c = "C" -> "c" [] c = "D" -> "d"
    [] c = "E" -> "e" [] c = "F" -> "f" [] c = "G" -> "g" [] c = "H" -> "h"
    [] c = "I" -> "i" [] c = "J" -> "j" [] c = "K" -> "k" [] c = "L" -> "l"
    [] c = "M" -> "m" [] c = "N" -> "n" [] c = "O" -> "o" [] c = "P" -> "p"
    [] c = "Q" -> "q" [] c = "R" -> "r" [] c = "S" -> "s" [] c = "T" -> "t"
    [] c = "U" -> "u" [] c = "V" -> "v" [] c = "W" -> "w" [] c = "X" -> "x"
    [] c = "Y" -> "y" [] c = "Z" -> "z" [] OTHER -> c
\* String.prototype.toLowerCase()
toLowerCase(s) == [i \in 1..Len(s) |-> LowerOf(s[i])]
\* \s of the regular expressions, and the characters trim() removes
IsSpace(c) == c \in {" ", "\t"}
RECURSIVE trimStart(_)
trimStart(s) == IF s # <<>> /\ IsSpace(Head(s)) THEN trimStart(Tail(s)) ELSE s
RECURSIVE trimEnd(_)
trimEnd(s) ==
  IF s # <<>> /\ IsSpace(s[Len(s)]) THEN trimEnd(SubSeq(s, 1, Len(s) - 1)) ELSE s
\* String.prototype.trim()
trim(s) == trimEnd(trimStart(s))
\* String.prototype.includes()
includes(s, kw) ==
  \E i \in 1..(Len(s) - Len(kw) + 1) : SubSeq(s, i, i + Len(kw) - 1) = kw

-----------------------------------------------------------------------------
(* Scoring engine: services/scoring.ts *)

BASE_SCORE == 50

AgeGroups == {"toddler", "child", "family"}

\* A category is the set of the words of the category string.  The words a
\* keyword test can see are the keywords of calculateEventTypeScore and the
\* categories determineCategoryFromText produces.
CategoryWords ==
  {"concert", "kids", "children", "club", "nightclub", "bar", "lecture",
   "conference", "business", "horror", "scary", "bar crawl", "networking",
   "mild", "museum", "educational", "workshop", "interactive", "sport",
   "playground", "soft play", "puppet", "petting zoo", "farm", "animals",
   "music", "sensory", "theater", "science", "climbing", "adventure", "craft",
   "art", "cinema", "festival", "zoo", "park", "exhibition", "outdoor",
   "nature", "hiking", "aquapark", "other"}
\* the keywords that occur inside a word, as substrings
KeywordsIn(w) ==
  CASE w = "aquapark"    -> {"aquapark", "park"}
    [] w = "bar crawl"   -> {"bar crawl", "bar"}
    [] w = "nightclub"   -> {"nightclub", "club"}
    [] w = "petting zoo" -> {"petting zoo", "zoo"}
    [] OTHER             -> {w}
\* cat.includes(kw) on the lower-cased category string
catIncludes(cat, kw) == \E w \in cat : kw \in KeywordsIn(w)

calculateAgeScore(ageMin, ageMax, targetAge, ageGroup) ==
  IF ~Truthy(ageMin) /\ ~Truthy(ageMax) THEN
    (IF ageGroup = "toddler" THEN 8 ELSE IF ageGroup = "child" THEN 12 ELSE 15)
  ELSE IF ~Truthy(targetAge) THEN 12
  ELSE IF Truthy(ageMin) /\ Truthy(ageMax)
          /\ targetAge >= ageMin /\ targetAge <= ageMax THEN 25
  ELSE IF Truthy(ageMin) /\ ~Truthy(ageMax) /\ targetAge >= ageMin THEN
    (LET diff == targetAge - ageMin
     IN IF diff < 2 THEN 23 ELSE IF diff < 5 THEN 20 ELSE 16)
  ELSE IF Truthy(ageMax) /\ ~Truthy(ageMin) /\ targetAge <= ageMax THEN
    (LET diff == ageMax - targetAge
     IN IF diff > 2 THEN 23 ELSE IF diff >= 0 THEN 20 ELSE 16)
  ELSE IF Truthy(ageMin) /\ targetAge < ageMin THEN
    (LET diff == ageMin - targetAge
     IN IF diff <= 1 THEN 15 ELSE IF diff <= 2 THEN 10
        ELSE IF diff <= 4 THEN 5 ELSE 0)
  ELSE IF Truthy(ageMax) /\ targetAge > ageMax THEN
    (LET diff == targetAge - ageMax
     IN IF diff <= 1 THEN 15 ELSE IF diff <= 2 THEN 10
        ELSE IF diff <= 4 THEN 5 ELSE 0)
  ELSE 0

\* distance in tenths of a kilometre
calculateDistanceScore(distance) ==
  IF ~Truthy(distance) THEN 3
  ELSE IF distance < 100 THEN 15
  ELSE IF distance < 300 THEN 10
  ELSE IF distance < 700 THEN 5
  ELSE IF distance < 1300 THEN 2
  ELSE 0

calculatePriceScore(adultPrice, childPrice, familyPrice) ==
  IF ~Truthy(adultPrice) /\ ~Truthy(childPrice) /\ ~Truthy(familyPrice) THEN 3
  ELSE
    LET orZero(x) == IF Truthy(x) THEN x ELSE 0
        individualPrice ==
          orZero(adultPrice) * 2
          + (IF Truthy(childPrice) THEN childPrice ELSE orZero(adultPrice))
        effectivePrice ==
          IF Truthy(familyPrice) /\ familyPrice < individualPrice
          THEN familyPrice ELSE individualPrice
    IN IF effectivePrice = 0 THEN 15
       ELSE IF effectivePrice < 200 THEN 12
       ELSE IF effectivePrice < 500 THEN 8
       ELSE IF effectivePrice < 1000 THEN 4
       ELSE 2

\* the clamp at the end of calculateEventTypeScore
TypeScoreClamp(score) == Min2(score, 15)

\* weather is "none" (no forecast for the day), "good" or "bad"
\* (isGoodForOutdoor true or false)
calculateEventTypeScore(category, isOutdoor, ageGroup, weather) ==
  LET has(kw) == catIncludes(category, kw)
      add(c, n) == IF c THEN n ELSE 0
      penalties ==
        IF ageGroup = "toddler" THEN
            add(has("concert") /\ ~has("kids") /\ ~has("children"), -15)
          + add(has("club") \/ has("nightclub") \/ has("bar"), -20)
          + add(has("lecture") \/ has("conference") \/ has("business"), -18)
          + add(has("horror") \/ has("scary"), -20)
        ELSE IF ageGroup = "child" THEN
            add(has("nightclub") \/ has("bar crawl"), -20)
          + add(has("business") \/ has("networking"), -15)
          + add(has("horror") /\ ~has("mild"), -10)
        ELSE 0
      outdoor ==
        IF isOutdoor /\ weather = "good" THEN 8
        ELSE IF isOutdoor /\ weather = "bad" THEN -3
        ELSE 0
      general ==
          add(has("museum") \/ has("educational") \/ has("workshop"), 7)
        + add(has("workshop") \/ has("interactive") \/ has("sport"), 5)
      preferences ==
        IF ageGroup = "toddler" THEN
            add(has("playground") \/ has("soft play") \/ has("puppet"), 9)
          + add(has("petting zoo") \/ has("farm") \/ has("animals"), 8)
          + add(has("music") \/ has("sensory"), 7)
          + add(has("theater") /\ ~has("puppet"), -2)
        ELSE IF ageGroup = "child" THEN
            add(has("museum") \/ has("science") \/ has("educational"), 8)
          + add(has("sport") \/ has("climbing") \/ has("adventure"), 7)
          + add(has("workshop") \/ has("craft") \/ has("art"), 7)
          + add(has("theater") \/ has("cinema"), 6)
        ELSE
            add(has("festival") \/ has("zoo") \/ has("park"), 7)
          + add(has("exhibition") \/ has("museum"), 6)
          + add(has("outdoor") \/ has("nature") \/ has("hiking"), 6)
  IN IF category = {} THEN 5
     ELSE TypeScoreClamp(5 + penalties + outdoor + general + preferences)

calculateTimingScore(startDateTime, ageGroup) ==
  LET dayOfWeek == getDay(startDateTime)
      hour == getHours(startDateTime)
      weekend == IF dayOfWeek = 0 \/ dayOfWeek = 6 THEN 5 ELSE 0
      timeOfDay ==
        IF ageGroup = "toddler" THEN
          (IF hour >= 9 /\ hour < 11 THEN 5
           ELSE IF hour >= 11 /\ hour < 14 THEN 2 ELSE 0)
        ELSE IF ageGroup = "child" THEN
          (IF hour >= 14 /\ hour < 17 THEN 3 ELSE 0)
        ELSE (IF hour >= 10 /\ hour < 18 THEN 2 ELSE 0)
  IN Min2(weekend + timeOfDay, 10)

calculateDurationScore(durationMinutes, ageGroup) ==
  IF ~Truthy(durationMinutes) THEN 2
  ELSE IF ageGroup = "toddler" THEN
    (IF durationMinutes >= 30 /\ durationMinutes <= 60 THEN 10
     ELSE IF durationMinutes >= 60 /\ durationMinutes <= 90 THEN 7
     ELSE IF durationMinutes < 30 THEN 5 ELSE 3)
  ELSE IF ageGroup = "child" THEN
    (IF durationMinutes >= 90 /\ durationMinutes <= 180 THEN 10
     ELSE IF durationMinutes >= 60 /\ durationMinutes <= 90 THEN 8
     ELSE IF durationMinutes >= 180 /\ durationMinutes <= 240 THEN 7 ELSE 5)
  ELSE
    (IF durationMinutes >= 90 /\ durationMinutes <= 240 THEN 10
     ELSE IF durationMinutes >= 60 /\ durationMinutes <= 90 THEN 8 ELSE 6)

\* The seasonal keywords; a letter outside ASCII is one element.
seasonalKeywords ==
  { <<"f", "e", "s", "t", "i", "v", "a", "l">>,
    <<"s", "p", "e", "c", "i", "a'", "l", "n", "i'">>,
    <<"v", "y'", "j", "i", "m", "e", "c^", "n", "y'">>,
    <<"l", "i", "m", "i", "t", "e", "d">>,
    <<"e", "x", "k", "l", "u", "z", "i", "v", "n", "i'">>,
    <<"p", "o", "u", "z", "e">>,
    <<"j", "e", "d", "n", "o", "u">>,
    <<"n", "a", "p", "o", "s", "l", "e", "d", "y">>,
    <<"p", "r", "e", "m", "i", "e'", "r", "a">>,
    <<"c", "l", "o", "s", "i", "n", "g">> }

\* A description is seen by the code through its truthiness, its length and
\* the seasonal keywords in it: [id, len, seasonal]; id tells two
\* descriptions apart.
NoDescription == [id |-> 0, len |-> 0, seasonal |-> FALSE]

calculateSeasonalityScore(title, description, startDateTime) ==
  IF \/ \E kw \in seasonalKeywords : includes(toLowerCase(title), kw)
     \/ description.seasonal
  THEN 5
  ELSE LET month == getMonth(startDateTime)
       IN IF month = 11 THEN 5
          ELSE IF month = 3 \/ month = 2 THEN 3
          ELSE 0

\* completeness that counts the age bounds when either is present
CompletenessEitherAge(event) ==
    (IF event.ageMin # Undef \/ event.ageMax # Undef THEN 2 ELSE 0)
  + (IF event.distanceFromPrague # Undef THEN 2 ELSE 0)
  + (IF event.adultPrice # Undef \/ event.childPrice # Undef
        \/ event.familyPrice # Undef THEN 1 ELSE 0)
  + (IF event.durationMinutes # Undef THEN 1 ELSE 0)
  + (IF event.description.len > 50 THEN 1 ELSE 0)
  + (IF event.imageUrl # "" THEN 1 ELSE 0)
\* completeness of the 8 weighted points; the multiplier is
\* 0.7 + (completeness / 8) * 0.3
Completeness(event) ==
    (IF event.ageMin # Undef /\ event.ageMax # Undef THEN 2 ELSE 0)
  + (IF event.distanceFromPrague # Undef THEN 2 ELSE 0)
  + (IF event.adultPrice # Undef \/ event.childPrice # Undef
        \/ event.familyPrice # Undef THEN 1 ELSE 0)
  + (IF event.durationMinutes # Undef THEN 1 ELSE 0)
  + (IF event.description.len > 50 THEN 1 ELSE 0)
  + (IF event.imageUrl # "" THEN 1 ELSE 0)
\* the multiplier in eightieths: 0.7 = 56/80, 0.3/8 = 3/80
calculateDataCompletenessMultiplier(event) == 56 + 3 * Completeness(event)

\* The pairs <<sum, completeness>> for which the IEEE-754 product
\* sum * (0.7 + (completeness / 8) * 0.3) falls just below a half that the
\* exact product reaches, so that Math.round rounds down.
RoundsBelowHalf ==
  { <<20, 2>>, <<40, 1>>, <<45, 0>>, <<60, 2>>, <<60, 6>>, <<85, 0>>,
    <<100, 2>>, <<120, 1>> }

\* Math.round(Math.min(100, sum * multiplier))
FinalScore(sum, event) ==
  LET num == sum * calculateDataCompletenessMultiplier(event)
  IN IF num > 8000 THEN 100
     ELSE IF <<sum, Completeness(event)>> \in RoundsBelowHalf
          THEN (2 * num + 80) \div 160 - 1
          ELSE (2 * num + 80) \div 160

TargetAge(ageGroup) ==
  IF ageGroup = "toddler" THEN 2 ELSE IF ageGroup = "child" THEN 8 ELSE Undef

scoreEvent(event, ageGroup, weather) ==
  LET ageScore == calculateAgeScore(event.ageMin, event.ageMax,
                                    TargetAge(ageGroup), ageGroup)
      distanceScore == calculateDistanceScore(event.distanceFromPrague)
      priceScore == calculatePriceScore(event.adultPrice, event.childPrice,
                                        event.familyPrice)
      eventTypeScore == calculateEventTypeScore(event.category, event.isOutdoor,
                                                ageGroup, weather)
      timingScore == calculateTimingScore(event.startDateTime, ageGroup)
      durationScore == calculateDurationScore(event.durationMinutes, ageGroup)
      seasonalityScore == calculateSeasonalityScore(event.title,
                                                    event.description,
                                                    event.startDateTime)
      sum == BASE_SCORE + ageScore + distanceScore + priceScore
             + eventTypeScore + timingScore + durationScore + seasonalityScore
  IN [ score |-> FinalScore(sum, event),
       factors |-> [ ageAppropriatenessScore |-> ageScore,
                     distanceScore |-> distanceScore,
                     priceScore |-> priceScore,
                     eventTypeScore |-> eventTypeScore,
                     timingScore |-> timingScore,
                     durationScore |-> durationScore,
                     seasonalityScore |-> seasonalityScore,
                     weatherScore |-> IF weather = "good" THEN 5 ELSE 0 ] ]

\* the ScoredEvent: the event and its three scores
scoreEventForAllGroups(event, weather) ==
  [ event |-> event,
    scoreToddler |-> scoreEvent(event, "toddler", weather).score,
    scoreChild |-> scoreEvent(event, "child", weather).score,
    scoreFamily |-> scoreEvent(event, "family", weather).score ]

-----------------------------------------------------------------------------
(* Events *)

\* A RawEvent / GeocodedEvent with every optional field absent.
BlankEvent ==
  [ externalId |-> "", source |-> <<>>, title |-> <<>>,
    description |-> NoDescription, startDateTime |-> 0, endDateTime |-> Undef,
    locationName |-> <<>>, address |-> <<>>, category |-> {},
    ageMin |-> Undef, ageMax |-> Undef,
    adultPrice |-> Undef, childPrice |-> Undef, familyPrice |-> Undef,
    isOutdoor |-> FALSE, durationMinutes |-> Undef,
    imageUrl |-> "", bookingUrl |-> "",
    latitude |-> Undef, longitude |-> Undef, distanceFromPrague |-> Undef ]

-----------------------------------------------------------------------------
(* Deduplication engine: services/deduplication.ts *)

\* A ratio num/den with den > 0, in lowest terms.
RECURSIVE GCD(_, _)
GCD(a, b) ==
  IF b = 0 THEN a
  ELSE CHOOSE g \in {GCD(x, y) : x \in {b}, y \in {a % b}} : TRUE
Ratio(n, d) ==
  CHOOSE r \in {[num |-> x \div g, den |-> y \div g] :
                  x \in {n}, y \in {d}, g \in {GCD(n, d)}} : TRUE
RatioEq(r, s) == r.num * s.den = s.num * r.den
\* r >= tenths/10
RatioGeqTenths(r, tenths) == r.num * 10 >= tenths * r.den

Min3(a, b, c) == Min2(a, Min2(b, c))

\* One row of the dp table: cur holds dp[i][0..j-1], prev holds dp[i-1][..]
\* (a row's entry for column k is at index k + 1).  Every cell is computed
\* before the next one is started, as the inner loop does.
RECURSIVE LevCells(_, _, _, _, _)
LevCells(c, str2, prev, cur, j) ==
  IF j > Len(str2) THEN cur
  ELSE CHOOSE row \in
         {LevCells(c, str2, prev, filled, j + 1) :
            filled \in {Append(cur, IF c = str2[j] THEN prev[j]
                                    ELSE 1 + Min3(prev[j + 1], cur[j],
                                                  prev[j]))}} : TRUE
\* the rows of the matrix, top to bottom; a row is complete before the next
\* one is started, as the outer loop does
RECURSIVE LevRows(_, _, _, _)
LevRows(str1, str2, prev, i) ==
  IF i > Len(str1) THEN prev
  ELSE CHOOSE last \in
         {LevRows(str1, str2, row, i + 1) :
            row \in {LevCells(str1[i], str2, prev, <<i>>, 1)}} : TRUE

levenshteinDistance(str1, str2) ==
  CHOOSE d \in
    {LevRows(a, b, [j \in 1..(Len(b) + 1) |-> j - 1] \o <<>>, 1)[Len(b) + 1] :
       a \in {str1 \o <<>>}, b \in {str2 \o <<>>}} : TRUE

\* a faulty SimilarityLength: the length of the first string only
SimilarityLengthFirst(str1, str2) == Len(str1)

\* the length the distance is divided by
SimilarityLength(str1, str2) == Max2(Len(str1), Len(str2))

stringSimilarity(str1, str2) ==
  LET distance == levenshteinDistance(toLowerCase(str1), toLowerCase(str2))
      maxLength == SimilarityLength(str1, str2)
  IN IF maxLength = 0 THEN Ratio(1, 1)
     ELSE Ratio(maxLength - distance, maxLength)

Digits == {"0", "1", "2", "3", "4", "5", "6", "7", "8", "9"}
\* the letters of the ranges a'-z^ and A'-Z^ (Czech letters with diacritics)
CzechLetters == {"a'", "e'", "i'", "y'", "c^"}
\* \w, the Czech letters and \s: what the character class [^\w..\s] keeps
KeptByNormalize(c) ==
  \/ c \in UpperCase \/ c \in {LowerOf(u) : u \in UpperCase}
  \/ c \in Digits \/ c = "_" \/ c \in CzechLetters \/ IsSpace(c)
\* replace(/[^\w..\s]/g, '')
stripSpecial(s) == SelectSeq(s, KeptByNormalize)
\* replace(/\s+/g, ' ')
RECURSIVE collapseSpaces(_)
collapseSpaces(s) ==
  IF s = <<>> THEN <<>>
  ELSE IF IsSpace(Head(s)) THEN <<" ">> \o collapseSpaces(trimStart(Tail(s)))
  ELSE <<Head(s)>> \o collapseSpaces(Tail(s))

normalizeTitle(title) == collapseSpaces(stripSpecial(trim(toLowerCase(title))))

normalizeLocation(location) ==
  IF location = <<>> THEN <<>>
  ELSE collapseSpaces(stripSpecial(trim(toLowerCase(location))))

isSameDay(date1, date2) == CivilOf(DayOf(date1)) = CivilOf(DayOf(date2))

isWithinHours(date1, date2, hours) ==
  (IF date1 >= date2 THEN date1 - date2 ELSE date2 - date1) <= hours

\* event.locationName || event.address
LocationOf(event) ==
  IF event.locationName # <<>> THEN event.locationName ELSE event.address

\* the price similarity 1 - min(1, |p1 - p2| / ((p1 + p2) / 2)), or 1 when
\* both prices are 0
PriceSimilarity(p1, p2) ==
  LET priceDiff == IF p1 >= p2 THEN p1 - p2 ELSE p2 - p1
  IN IF p1 + p2 > 0
     THEN Ratio((p1 + p2) - Min2(p1 + p2, 2 * priceDiff), p1 + p2)
     ELSE Ratio(1, 1)

\* score / factors as an exact ratio; the weights are in tenths
calculateDuplicateScore(event1, event2) ==
  LET titleSimilarity == stringSimilarity(normalizeTitle(event1.title),
                                          normalizeTitle(event2.title))
      sameDay == isSameDay(event1.startDateTime, event2.startDateTime)
      closeTime == sameDay /\ isWithinHours(event1.startDateTime,
                                            event2.startDateTime, 2)
      location1 == normalizeLocation(LocationOf(event1))
      location2 == normalizeLocation(LocationOf(event2))
      hasLocation == location1 # <<>> /\ location2 # <<>>
      locationSimilarity ==
        IF hasLocation THEN stringSimilarity(location1, location2)
        ELSE Ratio(0, 1)
      hasPrice == event1.adultPrice # Undef /\ event2.adultPrice # Undef
      priceSimilarity ==
        IF hasPrice THEN PriceSimilarity(event1.adultPrice, event2.adultPrice)
        ELSE Ratio(0, 1)
      factors ==
          4 + (IF closeTime THEN 1 ELSE 0) + 3
        + (IF hasLocation THEN 2 ELSE 0) + (IF hasPrice THEN 1 ELSE 0)
  IN CHOOSE ratio \in
       {Ratio(  4 * t.num * l.den * p.den
              + (IF sameDay THEN 3 ELSE 0) * t.den * l.den * p.den
              + (IF closeTime THEN 1 ELSE 0) * t.den * l.den * p.den
              + (IF hasLocation THEN 2 * l.num * t.den * p.den ELSE 0)
              + (IF hasPrice THEN 1 * p.num * t.den * l.den ELSE 0),
              factors * t.den * l.den * p.den) :
          t \in {titleSimilarity}, l \in {locationSimilarity},
          p \in {priceSimilarity}} : TRUE

\* threshold in tenths (the default 0.8 is 8)
isDuplicate(event1, event2, threshold) ==
  RatioGeqTenths(calculateDuplicateScore(event1, event2), threshold)

\* a ?? b and the merge of two optional numbers present on both sides
Coalesce(a, b) == IF a # Undef THEN a ELSE b
MergeAgeMin(a, b) == IF a # Undef /\ b # Undef THEN Max2(a, b) ELSE Coalesce(a, b)
MergeAgeMax(a, b) == IF a # Undef /\ b # Undef THEN Min2(a, b) ELSE Coalesce(a, b)
\* a price merge that prefers the first record's price
MergePriceFirst(a, b) == Coalesce(a, b)
MergePrice(a, b) == IF a # Undef /\ b # Undef THEN Min2(a, b) ELSE Coalesce(a, b)

\* a merge that keeps the identifier of the second record
MergedIdOfSecond(event1, event2) == event2.externalId
\* the identifier of a merged record: the one of the first source
MergedId(event1, event2) == event1.externalId

mergeEvents(event1, event2) ==
  [ externalId |-> MergedId(event1, event2),
    source |-> event1.source \o event2.source,
    title |-> IF Len(event1.title) > Len(event2.title)
              THEN event1.title ELSE event2.title,
    description |->
      IF \/ event1.description.len = 0
         \/ (event2.description.len # 0
             /\ event2.description.len > event1.description.len)
      THEN event2.description ELSE event1.description,
    startDateTime |-> event1.startDateTime,
    endDateTime |-> Coalesce(event1.endDateTime, event2.endDateTime),
    locationName |-> IF event1.locationName # <<>>
                     THEN event1.locationName ELSE event2.locationName,
    address |-> IF event1.address # <<>> THEN event1.address ELSE event2.address,
    category |-> IF event1.category # {} THEN event1.category ELSE event2.category,
    ageMin |-> MergeAgeMin(event1.ageMin, event2.ageMin),
    ageMax |-> MergeAgeMax(event1.ageMax, event2.ageMax),
    adultPrice |-> MergePrice(event1.adultPrice, event2.adultPrice),
    childPrice |-> MergePrice(event1.childPrice, event2.childPrice),
    familyPrice |-> MergePrice(event1.familyPrice, event2.familyPrice),
    isOutdoor |-> event1.isOutdoor \/ event2.isOutdoor,
    durationMinutes |-> IF Truthy(event1.durationMinutes)
                        THEN event1.durationMinutes ELSE event2.durationMinutes,
    imageUrl |-> IF event1.imageUrl # "" THEN event1.imageUrl ELSE event2.imageUrl,
    bookingUrl |-> IF event1.bookingUrl # ""
                   THEN event1.bookingUrl ELSE event2.bookingUrl,
    latitude |-> Undef, longitude |-> Undef, distanceFromPrague |-> Undef ]

\* the record the candidate events[j] is compared with in the inner loop
DedupPivot(events, i, mergedEvent) == mergedEvent

\* The inner loop of deduplicateEvents from index j on: the merged event and
\* the processed set it ends with.
RECURSIVE MergeScan(_, _, _, _, _, _)
MergeScan(events, i, j, mergedEvent, processed, threshold) ==
  IF j > Len(events) THEN [mergedEvent |-> mergedEvent, processed |-> processed]
  ELSE IF j \in processed
    THEN MergeScan(events, i, j + 1, mergedEvent, processed, threshold)
  ELSE IF isDuplicate(DedupPivot(events, i, mergedEvent), events[j], threshold)
    THEN CHOOSE r \in
           {MergeScan(events, i, j + 1, m, p, threshold) :
              m \in {mergeEvents(mergedEvent, events[j])},
              p \in {processed \cup {j}}} : TRUE
  ELSE MergeScan(events, i, j + 1, mergedEvent, processed, threshold)

\* The outer loop of deduplicateEvents from index i on.
RECURSIVE DedupFrom(_, _, _, _, _)
DedupFrom(events, i, processed, deduplicated, threshold) ==
  IF i > Len(events) THEN deduplicated
  ELSE IF i \in processed
    THEN DedupFrom(events, i + 1, processed, deduplicated, threshold)
  ELSE CHOOSE out \in
         {DedupFrom(events, i + 1, r.processed,
                    Append(deduplicated, r.mergedEvent), threshold) :
            r \in {MergeScan(events, i, i + 1, events[i], processed \cup {i},
                             threshold)}} : TRUE

deduplicateEvents(events, threshold) ==
  IF Len(events) = 0 THEN <<>> ELSE DedupFrom(events, 1, {}, <<>>, threshold)

\* The inner loop of findDuplicateGroups from index j on: the group and the
\* processed set it ends with.
RECURSIVE FindScan(_, _, _, _, _, _)
FindScan(events, i, j, group, processed, threshold) ==
  IF j > Len(events) THEN [group |-> group, processed |-> processed]
  ELSE IF j \in processed
    THEN FindScan(events, i, j + 1, group, processed, threshold)
  ELSE IF isDuplicate(events[i], events[j], threshold)
    THEN FindScan(events, i, j + 1, Append(group, events[j]),
                  processed \cup {j}, threshold)
  ELSE FindScan(events, i, j + 1, group, processed, threshold)

\* The outer loop of findDuplicateGroups from index i on.
RECURSIVE FindFrom(_, _, _, _, _)
FindFrom(events, i, processed, groups, threshold) ==
  IF i > Len(events) THEN groups
  ELSE IF i \in processed
    THEN FindFrom(events, i + 1, processed, groups, threshold)
  ELSE LET r == FindScan(events, i, i + 1, <<events[i]>>, processed \cup {i},
                         threshold)
       IN FindFrom(events, i + 1, r.processed,
                   IF Len(r.group) > 1 THEN Append(groups, r.group)
                   ELSE groups,
                   threshold)

findDuplicateGroups(events, threshold) ==
  FindFrom(events, 1, {}, <<>>, threshold)

-----------------------------------------------------------------------------
(* Inputs of the scoring engine *)

\* the number of fields in which an input record may differ from a base record
MaxVaried == 2

\* Saturday 2025-06-07 09:00, Tuesday 2025-06-10 20:00,
\* Saturday 2025-12-06 15:00, Saturday 2025-03-15 09:00
SatMorning == 20246 * 24 + 9
TueEvening == 20249 * 24 + 20
DecAfternoon == 20428 * 24 + 15
MarMorning == 20162 * 24 + 9

ShortDescription == [id |-> 1, len |-> 20, seasonal |-> FALSE]
LongDescription == [id |-> 2, len |-> 80, seasonal |-> FALSE]
SeasonalDescription == [id |-> 3, len |-> 60, seasonal |-> TRUE]

\* the values each field of an input record ranges over
FieldValues ==
  [ title |-> << <<"A", "b">>, <<"F", "e", "s", "t", "i", "v", "a", "l">> >>,
    description |-> <<NoDescription, ShortDescription, LongDescription,
                      SeasonalDescription>>,
    startDateTime |-> <<SatMorning, TueEvening, DecAfternoon, MarMorning>>,
    category |-> << {}, {"outdoor"}, {"concert"}, {"playground"}, {"museum"},
                    {"concert", "club", "lecture", "horror"} >>,
    ageMin |-> <<Undef, 0, 3, 10>>,
    ageMax |-> <<Undef, 3, 6, 12>>,
    adultPrice |-> <<Undef, 0, 100, 600>>,
    childPrice |-> <<Undef, 0, 50>>,
    familyPrice |-> <<Undef, 150, 1200>>,
    isOutdoor |-> <<FALSE, TRUE>>,
    durationMinutes |-> <<Undef, 45, 120, 300>>,
    imageUrl |-> <<"", "img">>,
    distanceFromPrague |-> <<Undef, 0, 50, 200, 1300>> ]

\* the fully specified record: ages 3-6, 5 km, free, outdoor, Saturday
\* morning, 45 minutes
ScenarioEvent ==
  [BlankEvent EXCEPT
     !.externalId = "s1", !.source = <<"goout.net">>, !.title = <<"A", "b">>,
     !.description = LongDescription, !.startDateTime = SatMorning,
     !.category = {"outdoor"}, !.ageMin = 3, !.ageMax = 6, !.adultPrice = 0,
     !.isOutdoor = TRUE, !.durationMinutes = 45, !.imageUrl = "img",
     !.latitude = 500900, !.longitude = 144400, !.distanceFromPrague = 50]
\* the same record with every optional field absent
BareEvent ==
  [BlankEvent EXCEPT
     !.externalId = "s1", !.source = <<"goout.net">>, !.title = <<"A", "b">>,
     !.startDateTime = SatMorning]
\* a weekday-evening record for older children, far away and expensive
FarEvent ==
  [BlankEvent EXCEPT
     !.externalId = "s2", !.source = <<"kdykde.cz">>, !.title = <<"A", "b">>,
     !.startDateTime = TueEvening,
     !.category = {"concert", "club", "lecture", "horror"},
     !.ageMin = 10, !.ageMax = 12, !.adultPrice = 600, !.durationMinutes = 300,
     !.latitude = 491951, !.longitude = 166068, !.distanceFromPrague = 1300]

BaseEvents == {ScenarioEvent, BareEvent, FarEvent}

\* the records that differ from base b in the fields F, at most
VariantsIn(b, F) ==
  LET maxAlt == 6
      picks == {v \in [F -> 1..maxAlt] : \A f \in F : v[f] <= Len(FieldValues[f])}
  IN { [f \in DOMAIN b |-> IF f \in F THEN FieldValues[f][v[f]] ELSE b[f]] :
       v \in picks }

\* the invariant of a RawEvent: ageMin <= ageMax when both are present
ValidEvent(e) == (e.ageMin # Undef /\ e.ageMax # Undef) => e.ageMin <= e.ageMax

ScoreInputs ==
  { e \in UNION { VariantsIn(b, F) :
                  b \in BaseEvents,
                  F \in {G \in SUBSET (DOMAIN FieldValues) :
                           Cardinality(G) <= MaxVaried} } :
    ValidEvent(e) }

Weathers == {"none", "good", "bad"}

NoResult == [score |-> 0, factors |-> <<>>]
NoScored == [event |-> BlankEvent, scoreToddler |-> 0, scoreChild |-> 0,
             scoreFamily |-> 0]

ScoreIdle ==
  /\ sEvent = BlankEvent /\ sPhase = "idle" /\ sGroup = "family"
  /\ sWeather = "none" /\ sResult = NoResult /\ sScored = NoScored

DedupIdle ==
  /\ dEvents = <<>> /\ dThreshold = 8 /\ dPhase = "idle" /\ dPair = <<0, 0>>
  /\ dScore = Ratio(0, 1) /\ dTitleSim = Ratio(0, 1)
  /\ dOut = <<>> /\ dOut2 = <<>>

-----------------------------------------------------------------------------
(* Inputs of the deduplication engine *)

\* the longest list handed to deduplicateEvents
MaxEvents == 3

Zoo == <<"Z", "o", "o">>
Brno == <<"B", "r", "n", "o">>

\* the records the scrapers may return
RawA == [BlankEvent EXCEPT
           !.externalId = "g1", !.source = <<"goout.net">>,
           !.title = <<"A", "b">>, !.startDateTime = SatMorning]
RawB == [BlankEvent EXCEPT
           !.externalId = "k1", !.source = <<"kdykde.cz">>,
           !.title = <<"a", "b", "!">>, !.startDateTime = SatMorning,
           !.description = ShortDescription, !.locationName = Zoo,
           !.category = {"zoo"}, !.ageMin = 3, !.ageMax = 6,
           !.adultPrice = 100, !.durationMinutes = 45]
RawC == [BlankEvent EXCEPT
           !.externalId = "k2", !.source = <<"kdykde.cz">>,
           !.title = <<"a", "c">>, !.startDateTime = SatMorning,
           !.locationName = Zoo, !.adultPrice = 100, !.imageUrl = "img"]
RawD == [BlankEvent EXCEPT
           !.externalId = "g2", !.source = <<"goout.net">>,
           !.title = <<"a", "b">>, !.startDateTime = SatMorning + 24,
           !.address = Brno, !.adultPrice = 110, !.ageMin = 8, !.ageMax = 12]
RawE == [BlankEvent EXCEPT
           !.externalId = "v1", !.source = <<"vylety-zabava.cz">>,
           !.title = <<"A", "b">>, !.startDateTime = SatMorning + 1,
           !.description = LongDescription,
           !.address = <<" ", "z", "o", "o", " ">>, !.adultPrice = 110,
           !.ageMin = 7, !.ageMax = 10, !.isOutdoor = TRUE]
RawF == [BlankEvent EXCEPT
           !.externalId = "v2", !.source = <<"vylety-zabava.cz">>,
           !.title = <<"x", "y", "z">>, !.startDateTime = SatMorning + 5,
           !.locationName = Brno, !.adultPrice = 0]

\* 'Koncert v Parku' and 'Koncert v parku!' at the same time and place
Park == <<"P", "a", "r", "k">>
KoncertA == [BlankEvent EXCEPT
               !.externalId = "g9", !.source = <<"goout.net">>,
               !.title = <<"K", "o", "n", "c", "e", "r", "t", " ", "v", " ",
                           "P", "a", "r", "k", "u">>,
               !.startDateTime = SatMorning + 9, !.locationName = Park,
               !.adultPrice = 100]
KoncertB == [BlankEvent EXCEPT
               !.externalId = "k9", !.source = <<"kdykde.cz">>,
               !.title = <<"K", "o", "n", "c", "e", "r", "t", " ", "v", " ",
                           "p", "a", "r", "k", "u", "!">>,
               !.startDateTime = SatMorning + 9, !.locationName = Park,
               !.adultPrice = 110]

RawUniverse == {RawA, RawB, RawC, RawD, RawE, RawF, KoncertA, KoncertB}

\* the thresholds, in tenths
Thresholds == {6, 8}

SeqsUpTo(S, n) == UNION { [1..k -> S] : k \in 0..n }

-----------------------------------------------------------------------------
(* Distance utilities: utils/distance.ts. Coordinates are in 1/10000 of a
   degree, distances in tenths of a kilometre. *)

PRAGUE_CENTER_LAT == 500755
PRAGUE_CENTER_LON == 144378

\* calculateDistance: the haversine distance rounded to one decimal, given
\* as the table of the values the formula takes on the model's coordinates
calculateDistance(lat1, lon1, lat2, lon2) ==
  LET from == <<lat1, lon1>>
      to == <<lat2, lon2>>
      prague == <<PRAGUE_CENTER_LAT, PRAGUE_CENTER_LON>>
  IN CASE from = to -> 0
       [] from = prague /\ to = <<501167, 144061>> -> 51
       [] from = prague /\ to = <<500755, 162600>> -> 1300
       [] from = prague /\ to = <<500755, 162610>> -> 1301
       [] from = prague /\ to = <<491951, 166068>> -> 1843
       [] OTHER -> 9999

distanceFromPrague(lat, lon) ==
  calculateDistance(PRAGUE_CENTER_LAT, PRAGUE_CENTER_LON, lat, lon)

-----------------------------------------------------------------------------
(* Geocoding service: services/geocoding.ts *)

Null == [found |-> FALSE, latitude |-> Undef, longitude |-> Undef]
Found(lat, lon) == [found |-> TRUE, latitude |-> lat, longitude |-> lon]

\* a cache entry: absent, or present with a result or with null
NoEntry == [has |-> FALSE, value |-> Null]
Entry(v) == [has |-> TRUE, value |-> v]

\* the cache key of an address
cacheKey(address) == trim(toLowerCase(address))

\* the geocoder collaborator: the first match of its answer to a query, or
\* Null when the answer is empty. It ignores case and surrounding blanks.
Nominatim(address) ==
  LET q == cacheKey(address)
  IN CASE q = <<"z", "o", "o">> -> Found(501167, 144061)
       [] q = <<"e", "d", "g", "e">> -> Found(500755, 162600)
       [] q = <<"o", "v", "e", "r">> -> Found(500755, 162610)
       [] q = <<"b", "r", "n", "o">> -> Found(491951, 166068)
       [] OTHER -> Null

\* the catch block of geocodeAddress: a failed request is cached as null
CacheFailureForgotten(cache, key) == cache
CacheFailure(cache, key) == [cache EXCEPT ![key] = Entry(Null)]

\* geocodeAddress(address) with the collaborator answering (fails = FALSE)
\* or failing: the result, the cache afterwards, and whether a request was
\* sent
geocodeAddress(cache, address, fails) ==
  IF address = <<>> \/ trim(address) = <<>>
  THEN [result |-> Null, cache |-> cache, requested |-> FALSE]
  ELSE LET key == cacheKey(address)
       IN IF cache[key].has
          THEN [result |-> cache[key].value, cache |-> cache,
                requested |-> FALSE]
          ELSE IF fails
          THEN [result |-> Null, cache |-> CacheFailure(cache, key),
                requested |-> TRUE]
          ELSE [result |-> Nominatim(address),
                cache |-> [cache EXCEPT ![key] = Entry(Nominatim(address))],
                requested |-> TRUE]

\* geocodeAndCalculateDistance, from the result of geocodeAddress
WithDistance(result) ==
  IF ~result.found
  THEN [found |-> FALSE, latitude |-> Undef, longitude |-> Undef,
        distanceFromPrague |-> Undef]
  ELSE [found |-> TRUE, latitude |-> result.latitude,
        longitude |-> result.longitude,
        distanceFromPrague |->
          distanceFromPrague(result.latitude, result.longitude)]

-----------------------------------------------------------------------------
(* Weather service: services/weather.ts. Temperatures are whole degrees. *)

\* CACHE_DURATION, in hours
CACHE_DURATION == 3

Clear == <<"C", "l", "e", "a", "r">>
Clouds == <<"C", "l", "o", "u", "d", "s">>
Thunderstorm == <<"T", "h", "u", "n", "d", "e", "r", "s", "t", "o", "r", "m">>

\* the forecast collaborator: the list of its answer at time t, here three
\* entries a day (06:00, 12:00, 15:00) for today and the two days after
ForecastList(t) ==
  LET day(d) == (DayOf(t) + d) * 24
      item(d, h, temp, main) == [dt |-> day(d) + h, temp |-> temp, main |-> main]
  IN << item(0, 6, 12, Clear), item(0, 12, 20, Clear), item(0, 15, 21, Clear),
        item(1, 6, 16, Clouds), item(1, 12, 22, Thunderstorm),
        item(1, 15, 25, Clear),
        item(2, 6, 10, Clouds), item(2, 12, 18, Clouds), item(2, 15, 31, Clear) >>

\* the loop of fetchWeatherForecast over response.data.list
RECURSIVE WeatherDataFrom(_, _, _)
WeatherDataFrom(list, weatherData, processedDates) ==
  IF list = <<>> \/ Len(weatherData) >= 7 THEN weatherData
  ELSE LET item == Head(list)
           dateStr == formatDate(item.dt)
           hour == getHours(item.dt)
           condition == toLowerCase(item.main)
           isGoodForOutdoor ==
             /\ item.temp >= 15 /\ item.temp <= 30
             /\ ~includes(condition, <<"r", "a", "i", "n">>)
             /\ ~includes(condition, <<"s", "t", "o", "r", "m">>)
             /\ ~includes(condition, <<"s", "n", "o", "w">>)
       IN IF dateStr \in processedDates \/ hour < 10 \/ hour > 16
          THEN WeatherDataFrom(Tail(list), weatherData, processedDates)
          ELSE WeatherDataFrom(
                 Tail(list),
                 Append(weatherData,
                        [date |-> dateStr, temperature |-> item.temp,
                         condition |-> condition,
                         isGoodForOutdoor |-> isGoodForOutdoor]),
                 processedDates \cup {dateStr})

\* the weather cache: null, or a list of WeatherData
NoWeatherCache == [set |-> FALSE, data |-> <<>>]

\* fetchWeatherForecast() at time t with the collaborator answering or
\* failing: the forecast returned, the cache and its timestamp afterwards,
\* and whether a request was sent
fetchWeatherForecast(cache, stamp, key, t, fails) ==
  IF ~key
  THEN [forecast |-> <<>>, cache |-> cache, stamp |-> stamp,
        requested |-> FALSE]
  ELSE IF cache.set /\ t - stamp < CACHE_DURATION
  THEN [forecast |-> cache.data, cache |-> cache, stamp |-> stamp,
        requested |-> FALSE]
  ELSE IF fails
  THEN [forecast |-> IF cache.set THEN cache.data ELSE <<>>, cache |-> cache,
        stamp |-> stamp, requested |-> TRUE]
  ELSE LET weatherData == WeatherDataFrom(ForecastList(t), <<>>, {})
       IN [forecast |-> weatherData,
           cache |-> [set |-> TRUE, data |-> weatherData], stamp |-> t,
           requested |-> TRUE]

\* forecast.find((w) => w.date === dateStr) || null, as the weather argument
\* of the scoring engine
WeatherFound(forecast, date) ==
  LET dateStr == formatDate(date)
      hits == {k \in 1..Len(forecast) : forecast[k].date = dateStr}
  IN IF hits = {} THEN "none"
     ELSE LET first == CHOOSE k \in hits : \A m \in hits : k <= m
          IN IF forecast[first].isGoodForOutdoor THEN "good" ELSE "bad"

-----------------------------------------------------------------------------
(* Scraper runner: scrapers/index.ts *)

\* the number of configured scrapers
NumScrapers == 2
\* the number of runs of the workflow
MaxRuns == 2
\* the number of collaborator failures in one behaviour
MaxFaults == 2
\* the number of days the clock advances
MaxTicks == 1

Edge == <<"E", "d", "g", "e">>
Over == <<"O", "v", "e", "r">>
Nowhere == <<"N", "o", "w", "h", "e", "r", "e">>

RawG == [BlankEvent EXCEPT
           !.externalId = "g3", !.source = <<"goout.net">>,
           !.title = <<"q">>, !.startDateTime = SatMorning + 2,
           !.address = Over, !.locationName = Zoo]
RawH == [BlankEvent EXCEPT
           !.externalId = "v3", !.source = <<"vylety-zabava.cz">>,
           !.title = <<"w">>, !.startDateTime = SatMorning + 3,
           !.locationName = Nowhere, !.category = {"outdoor"},
           !.isOutdoor = TRUE]
RawI == [BlankEvent EXCEPT
           !.externalId = "v4", !.source = <<"vylety-zabava.cz">>,
           !.title = <<"u", "v">>, !.startDateTime = SatMorning + 24,
           !.locationName = Edge, !.adultPrice = 50]
RawJ == [BlankEvent EXCEPT
           !.externalId = "v5", !.source = <<"vylety-zabava.cz">>,
           !.title = <<"n">>, !.startDateTime = SatMorning + 4]
RawK == [BlankEvent EXCEPT
           !.externalId = "g4", !.source = <<"goout.net">>,
           !.title = <<"k">>, !.startDateTime = SatMorning + 6,
           !.address = <<"E", "D", "G", "E", " ">>, !.ageMin = 0,
           !.ageMax = 3]

\* the names of the first scrapers of the SCRAPERS list, in its order
ScraperNames == <<"goout.net", "vylety-zabava.cz", "kdykde.cz">>
SCRAPERS == SubSeq(ScraperNames, 1, Min2(NumScrapers, Len(ScraperNames)))

\* what a scraper finds on its site
Listing(name) ==
  CASE name = "goout.net" -> <<RawA, RawG, RawK>>
    [] name = "vylety-zabava.cz" -> <<RawE, RawH, RawI, RawJ>>
    [] OTHER -> <<RawB, RawC>>

\* the ScraperResult a scraper returns: the whole listing, or the listing
\* without its last record and one error (executionTime is left out)
ScraperReturns(name, outcome) ==
  IF outcome = "ok"
  THEN [source |-> name, events |-> Listing(name), errors |-> <<>>]
  ELSE [source |-> name,
        events |-> SubSeq(Listing(name), 1, Len(Listing(name)) - 1),
        errors |-> <<"parse error">>]

\* the catch block of runAllScrapers
PushFailureSkipped(results, name, message) == results
PushFailure(results, name, message) ==
  Append(results, [source |-> name, events |-> <<>>, errors |-> <<message>>])

\* results.flatMap((result) => result.events)
RECURSIVE getAllEvents(_)
getAllEvents(results) ==
  IF results = <<>> THEN <<>>
  ELSE Head(results).events \o getAllEvents(Tail(results))

-----------------------------------------------------------------------------
(* Daily workflow: cron/daily-scrape.ts *)

\* the radius test of processEvents
TooFarInclusive(distance) == distance >= 1300
TooFar(distance) == distance > 1300

\* one iteration of the loop of processEvents: the output list after the
\* record, given the result of geocodeAndCalculateDistance
processEvent(geocodedEvents, event, geoResult) ==
  IF event.address = <<>> /\ event.locationName = <<>> THEN geocodedEvents
  ELSE IF ~geoResult.found THEN Append(geocodedEvents, event)
  ELSE IF TooFar(geoResult.distanceFromPrague) THEN geocodedEvents
  ELSE Append(geocodedEvents,
              [event EXCEPT !.latitude = geoResult.latitude,
                            !.longitude = geoResult.longitude,
                            !.distanceFromPrague = geoResult.distanceFromPrague])

\* the row prisma.event.upsert writes for a scored record
RowOf(scored) == [scored EXCEPT !.event.isOutdoor = (@ \/ FALSE)]

\* prisma.event.upsert({where: {externalId}, update, create})
UpsertAlwaysCreates(rows, row) == Append(rows, row)
Upsert(rows, row) ==
  IF \E k \in 1..Len(rows) : rows[k].event.externalId = row.event.externalId
  THEN [k \in 1..Len(rows) |->
          IF rows[k].event.externalId = row.event.externalId THEN row
          ELSE rows[k]]
  ELSE Append(rows, row)

\* an upsert loop that is left waiting when a write fails
AfterUpsertWaiting(ok, last) ==
  IF ~ok THEN "waiting" ELSE IF last THEN "prune" ELSE "store"
\* the try/catch of the loop of storeEvents: where the run goes after an
\* upsert
AfterUpsertAborting(ok, last) ==
  IF ~ok THEN "catch" ELSE IF last THEN "prune" ELSE "store"
AfterUpsert(ok, last) == IF last THEN "prune" ELSE "store"

\* the where clause of archiveOldEvents at time t: startDateTime lt
\* subDays(t, 30)
IsOldInclusive(row, t) == row.event.startDateTime <= t - 30 * 24
IsOld(row, t) == row.event.startDateTime < t - 30 * 24

\* prisma.event.deleteMany of archiveOldEvents
archiveOldEvents(rows, t) ==
  LET kept(row) == ~IsOld(row, t) IN SelectSeq(rows, kept)

\* result.errors.join('; ')
RECURSIVE join(_)
join(errors) ==
  IF errors = <<>> THEN ""
  ELSE IF Len(errors) = 1 THEN errors[1]
  ELSE errors[1] \o "; " \o join(Tail(errors))

\* the row logScrapeResults creates (an absent errorMessage is "")
AuditRow(source, status, eventsFound, errorMessage) ==
  [source |-> source, status |-> status, eventsFound |-> eventsFound,
   errorMessage |-> errorMessage]

\* an audit row that reports every scraper result as a success
ResultRowAlwaysSuccess(result) ==
  AuditRow(result.source, "success", Len(result.events), join(result.errors))
\* the audit row of one scraper result
ResultRow(result) ==
  AuditRow(result.source,
           IF Len(result.errors) > 0 THEN "partial" ELSE "success",
           Len(result.events), join(result.errors))

-----------------------------------------------------------------------------
(* The workflow as a state machine: runDailyScrape, one run after another *)

Runs == 1..MaxRuns

\* the cache keys of the location strings the scrapers can return
GeoKeys ==
  LET events == UNION { {Listing(n)[k] : k \in 1..Len(Listing(n))} :
                        n \in {ScraperNames[k] : k \in 1..Len(ScraperNames)} }
  IN ({ cacheKey(e.address) : e \in events } \cup
      { cacheKey(e.locationName) : e \in events }) \ {<<>>}

\* what a run has been answered by its collaborators, in order: the scraper
\* outcomes, the geocoding result of each record, the weather of each
\* record, and whether each upsert, audit write and delete succeeded
NoSeen == [scrape |-> <<>>, geo |-> <<>>, weather |-> <<>>, upsert |-> <<>>,
           audit |-> <<>>, prune |-> <<>>]

\* the locals of a run: its position, the loop index, the lists of the five
\* stages, the calls and delays of runAllScrapers, the calls of
\* geocodeAddress, the length of the audit log and the clock at its start,
\* the store at its end, and what triggered it
IdleRun ==
  [pc |-> "idle", i |-> 0, scraperResults |-> <<>>, allEvents |-> <<>>,
   deduplicatedEvents |-> <<>>, geocodedEvents |-> <<>>, scoredEvents |-> <<>>,
   trace |-> <<>>, lookups |-> <<>>, logStart |-> 0, startedAt |-> 0, storeAfter |-> <<>>,
   weatherRequests |-> 0, seen |-> NoSeen, trigger |-> "none"]

Finished == {"completed", "aborted", "threw"}

\* the rows already in the events table when the process starts: one that
\* started just over 30 days before the first run, one exactly 30 days
FirstRunAt == 20244 * 24 + 3
StoredEvent(id, start) ==
  RowOf(scoreEventForAllGroups(
          [BlankEvent EXCEPT !.externalId = id, !.source = <<"goout.net">>,
                             !.title = <<"o">>, !.startDateTime = start],
          "none"))
OldRow == StoredEvent("old1", FirstRunAt - 30 * 24 - 1)
EdgeRow == StoredEvent("edge1", FirstRunAt - 30 * 24)

Init ==
  /\ run = [r \in Runs |-> IdleRun]
  /\ started = 0
  /\ store = <<OldRow, EdgeRow>>
  /\ auditLog = <<>>
  /\ geocodeCache = [k \in GeoKeys |-> NoEntry]
  /\ geoRequests = [k \in GeoKeys |-> 0]
  /\ weatherCache = NoWeatherCache
  /\ cacheTimestamp = 0
  /\ apiKey \in BOOLEAN
  /\ now = FirstRunAt
  /\ ticks = 0
  /\ faults = 0
  /\ ScoreIdle /\ DedupIdle

\* a collaborator may fail while the failure budget lasts
MayFail(fails) == fails => faults < MaxFaults
Charge(fails) == faults' = IF fails THEN faults + 1 ELSE faults

\* runDailyScrape is called by the cron callback ("schedule") or by
\* POST /api/scrape/trigger ("manual"); no run is in progress
StartRunBy(r, trigger) ==
  /\ started < MaxRuns /\ r = started + 1
  /\ \A q \in Runs : run[q].pc \in Finished \cup {"idle"}
  /\ run' = [run EXCEPT ![r] = [IdleRun EXCEPT !.pc = "scrape", !.i = 1,
                                               !.logStart = Len(auditLog),
                                               !.startedAt = now,
                                               !.trigger = trigger]]
  /\ started' = started + 1
  /\ UNCHANGED <<store, auditLog, geocodeCache, geoRequests, weatherCache,
                 cacheTimestamp, apiKey, now, ticks, faults>>

\* the cron callback of scheduleDailyScrape
StartRun(r) == StartRunBy(r, "schedule")

\* one iteration of the loop of runAllScrapers
Scrape(r, outcome) ==
  LET me == run[r]
      name == SCRAPERS[me.i]
      last == me.i = Len(SCRAPERS)
      call == [kind |-> "call", scraper |-> name]
      wait == [kind |-> "delay", scraper |-> name]
  IN /\ me.pc = "scrape"
     /\ MayFail(outcome # "ok") /\ Charge(outcome # "ok")
     /\ run' = [run EXCEPT ![r] =
          [me EXCEPT
             !.scraperResults =
               IF outcome = "throw" THEN PushFailure(@, name, "timeout")
               ELSE Append(@, ScraperReturns(name, outcome)),
             !.trace = IF outcome = "throw" THEN Append(@, call)
                       ELSE @ \o <<call, wait>>,
             !.seen.scrape = Append(@, outcome),
             !.i = IF last THEN 1 ELSE @ + 1,
             !.pc = IF ~last THEN "scrape"
                    ELSE IF me.trigger = "admin" THEN "adminDedup"
                    ELSE "log"]]
     /\ UNCHANGED <<started, store, auditLog, geocodeCache, geoRequests,
                    weatherCache, cacheTimestamp, apiKey, now, ticks>>

\* one iteration of the loop over scraperResults: logScrapeResults
LogResult(r, ok) ==
  LET me == run[r]
      last == me.i >= Len(me.scraperResults)
  IN /\ me.pc = "log"
     /\ MayFail(~ok) /\ Charge(~ok)
     /\ auditLog' = IF ok /\ me.i <= Len(me.scraperResults)
                    THEN Append(auditLog, ResultRow(me.scraperResults[me.i]))
                    ELSE auditLog
     /\ run' = [run EXCEPT ![r] =
          [me EXCEPT !.seen.audit = Append(@, ok),
                     !.i = IF ok /\ ~last THEN @ + 1 ELSE 0,
                     !.pc = IF ~ok THEN "catch"
                            ELSE IF last THEN "dedup" ELSE "log"]]
     /\ UNCHANGED <<started, store, geocodeCache, geoRequests, weatherCache,
                    cacheTimestamp, apiKey, now, ticks>>

\* getAllEvents and deduplicateEvents(allEvents, 0.8)
DedupStep(r) ==
  LET me == run[r]
      all == getAllEvents(me.scraperResults)
      dedup == deduplicateEvents(all, 8)
  IN /\ me.pc = "dedup"
     /\ run' = [run EXCEPT ![r] =
          [me EXCEPT !.allEvents = all, !.deduplicatedEvents = dedup,
                     !.i = 1,
                     !.pc = IF dedup = <<>> THEN "weather" ELSE "geocode"]]
     /\ UNCHANGED <<started, store, auditLog, geocodeCache, geoRequests,
                    weatherCache, cacheTimestamp, apiKey, now, ticks, faults>>

\* one iteration of the loop of processEvents
ProcessEvent(r, fails) ==
  LET me == run[r]
      event == me.deduplicatedEvents[me.i]
      skipped == event.address = <<>> /\ event.locationName = <<>>
      address == IF event.address # <<>> THEN event.address
                 ELSE event.locationName
      geo == IF skipped
             THEN [result |-> Null, cache |-> geocodeCache, requested |-> FALSE]
             ELSE geocodeAddress(geocodeCache, address, fails)
      last == me.i = Len(me.deduplicatedEvents)
  IN /\ me.pc = "geocode"
     /\ fails => geo.requested
     /\ MayFail(fails) /\ Charge(fails)
     /\ geocodeCache' = geo.cache
     /\ geoRequests' = IF geo.requested
                       THEN [geoRequests EXCEPT ![cacheKey(address)] = @ + 1]
                       ELSE geoRequests
     /\ run' = [run EXCEPT ![r] =
          [me EXCEPT
             !.geocodedEvents =
               processEvent(@, event, WithDistance(geo.result)),
             !.seen.geo =
               Append(@, [externalId |-> event.externalId,
                          result |-> geo.result]),
             !.lookups =
               IF skipped THEN @
               ELSE Append(@, [address |-> address,
                               requested |-> geo.requested,
                               result |-> geo.result]),
             !.i = IF last THEN 0 ELSE @ + 1,
             !.pc = IF last THEN "weather" ELSE "geocode"]]
     /\ UNCHANGED <<started, store, auditLog, weatherCache, cacheTimestamp,
                    apiKey, now, ticks>>

\* whether fetchWeatherForecast would send a request now
ForecastStale ==
  apiKey /\ ~(weatherCache.set /\ now - cacheTimestamp < CACHE_DURATION)

\* the first statement of scoreEvents: fetchWeatherForecast()
FetchForecast(r, fails) ==
  LET me == run[r]
      w == fetchWeatherForecast(weatherCache, cacheTimestamp, apiKey, now, fails)
  IN /\ me.pc = "weather"
     /\ fails => ForecastStale
     /\ MayFail(fails) /\ Charge(fails)
     /\ weatherCache' = w.cache
     /\ cacheTimestamp' = w.stamp
     /\ run' = [run EXCEPT ![r] =
          [me EXCEPT
             !.weatherRequests = IF w.requested THEN @ + 1 ELSE @,
             !.i = 1,
             !.pc = IF me.geocodedEvents = <<>> THEN "prune" ELSE "score"]]
     /\ UNCHANGED <<started, store, auditLog, geocodeCache, geoRequests,
                    apiKey, now, ticks>>

\* a scoring loop that reads the output of deduplication instead
ScoredInputUnfiltered(me) == me.deduplicatedEvents[me.i]
\* the record an iteration of the loop of scoreEvents scores: the next
\* record of the list processEvents returned
ScoredInput(me) == me.geocodedEvents[me.i]

\* one iteration of the loop of scoreEvents: getWeatherForDate and
\* scoreEventForAllGroups
ScoreOne(r, fails) ==
  LET me == run[r]
      event == ScoredInput(me)
      w == fetchWeatherForecast(weatherCache, cacheTimestamp, apiKey, now, fails)
      weather == WeatherFound(w.forecast, event.startDateTime)
      last == me.i = Len(me.geocodedEvents)
  IN /\ me.pc = "score"
     /\ fails => ForecastStale
     /\ MayFail(fails) /\ Charge(fails)
     /\ weatherCache' = w.cache
     /\ cacheTimestamp' = w.stamp
     /\ run' = [run EXCEPT ![r] =
          [me EXCEPT
             !.scoredEvents = Append(@, scoreEventForAllGroups(event, weather)),
             !.weatherRequests = IF w.requested THEN @ + 1 ELSE @,
             !.seen.weather = Append(@, weather),
             !.i = IF last THEN 1 ELSE @ + 1,
             !.pc = IF last THEN "store" ELSE "score"]]
     /\ UNCHANGED <<started, store, auditLog, geocodeCache, geoRequests,
                    apiKey, now, ticks>>

\* one iteration of the loop of storeEvents
StoreOne(r, ok) ==
  LET me == run[r]
      last == me.i = Len(me.scoredEvents)
  IN /\ me.pc = "store"
     /\ MayFail(~ok) /\ Charge(~ok)
     /\ store' = IF ok THEN Upsert(store, RowOf(me.scoredEvents[me.i]))
                 ELSE store
     /\ run' = [run EXCEPT ![r] =
          [me EXCEPT
             !.seen.upsert =
               Append(@, [externalId |-> me.scoredEvents[me.i].event.externalId,
                          ok |-> ok]),
             !.i = IF last THEN 0 ELSE @ + 1,
             !.pc = AfterUpsert(ok, last)]]
     /\ UNCHANGED <<started, auditLog, geocodeCache, geoRequests, weatherCache,
                    cacheTimestamp, apiKey, now, ticks>>

\* archiveOldEvents, and the return of runDailyScrape after it
Archive(r, ok) ==
  LET me == run[r]
  IN /\ me.pc = "prune"
     /\ MayFail(~ok) /\ Charge(~ok)
     /\ store' = IF ok THEN archiveOldEvents(store, now) ELSE store
     /\ run' = [run EXCEPT ![r] =
          [me EXCEPT !.seen.prune = Append(@, ok),
                     !.storeAfter = IF ok THEN store' ELSE @,
                     !.pc = IF ok THEN "completed" ELSE "catch"]]
     /\ UNCHANGED <<started, auditLog, geocodeCache, geoRequests, weatherCache,
                    cacheTimestamp, apiKey, now, ticks>>

\* the catch block of runDailyScrape: it returns after the audit write, or
\* rejects with the error of the audit write
LogWorkflowError(r, ok) ==
  LET me == run[r]
  IN /\ me.pc = "catch"
     /\ MayFail(~ok) /\ Charge(~ok)
     /\ auditLog' = IF ok
                    THEN Append(auditLog,
                                AuditRow("workflow", "error", 0,
                                         "Error: write failed"))
                    ELSE auditLog
     /\ run' = [run EXCEPT ![r] =
          [me EXCEPT !.seen.audit = Append(@, ok),
                     !.storeAfter = store,
                     !.pc = IF ok THEN "aborted" ELSE "threw"]]
     /\ UNCHANGED <<started, store, geocodeCache, geoRequests, weatherCache,
                    cacheTimestamp, apiKey, now, ticks>>

\* a day passes between two runs
Tick ==
  /\ ticks < MaxTicks
  /\ \A q \in Runs : run[q].pc \in Finished \cup {"idle"}
  /\ now' = now + 24
  /\ ticks' = ticks + 1
  /\ UNCHANGED <<run, started, store, auditLog, geocodeCache, geoRequests,
                 weatherCache, cacheTimestamp, apiKey, faults>>

Next ==
  \/ \E r \in Runs : StartRun(r) /\ UNCHANGED <<scoreVars, dedupVars>>
  \/ \E r \in Runs, outcome \in {"ok", "partial", "throw"} :
       Scrape(r, outcome) /\ UNCHANGED <<scoreVars, dedupVars>>
  \/ \E r \in Runs, ok \in BOOLEAN :
       LogResult(r, ok) /\ UNCHANGED <<scoreVars, dedupVars>>
  \/ \E r \in Runs : DedupStep(r) /\ UNCHANGED <<scoreVars, dedupVars>>
  \/ \E r \in Runs, fails \in BOOLEAN :
       ProcessEvent(r, fails) /\ UNCHANGED <<scoreVars, dedupVars>>
  \/ \E r \in Runs, fails \in BOOLEAN :
       FetchForecast(r, fails) /\ UNCHANGED <<scoreVars, dedupVars>>
  \/ \E r \in Runs, fails \in BOOLEAN :
       ScoreOne(r, fails) /\ UNCHANGED <<scoreVars, dedupVars>>
  \/ \E r \in Runs, ok \in BOOLEAN :
       StoreOne(r, ok) /\ UNCHANGED <<scoreVars, dedupVars>>
  \/ \E r \in Runs, ok \in BOOLEAN :
       Archive(r, ok) /\ UNCHANGED <<scoreVars, dedupVars>>
  \/ \E r \in Runs, ok \in BOOLEAN :
       LogWorkflowError(r, ok) /\ UNCHANGED <<scoreVars, dedupVars>>
  \/ Tick /\ UNCHANGED <<scoreVars, dedupVars>>

\* the workflow variables while only an engine is exercised
PipeIdle ==
  /\ run = [r \in Runs |-> IdleRun] /\ started = 0 /\ store = <<>>
  /\ auditLog = <<>> /\ geocodeCache = [k \in GeoKeys |-> NoEntry]
  /\ geoRequests = [k \in GeoKeys |-> 0] /\ weatherCache = NoWeatherCache
  /\ cacheTimestamp = 0 /\ apiKey = FALSE /\ now = FirstRunAt /\ ticks = 0
  /\ faults = 0

vars == <<scoreVars, dedupVars, pipeVars>>

Spec == Init /\ [][Next]_vars

-----------------------------------------------------------------------------
(* The triggers of a run: the cron callback, POST /api/scrape/trigger
   (index.ts) and POST /api/admin/scrape/trigger (routes/admin.ts) *)

\* the number of runs in a behaviour of the triggers
MaxTriggered == 1

\* the values of the query parameter source of the admin trigger ("" when
\* it is absent)
AdminSources == {"", "goout.net", "unknown.cz"}

\* SCRAPERS.find(s => s.name === source)
KnownSource(source) == \E k \in 1..Len(SCRAPERS) : SCRAPERS[k] = source

\* POST /api/admin/scrape/trigger: the background function starts; with an
\* unknown source it returns at once
StartAdmin(r, source) ==
  /\ started < MaxRuns /\ r = started + 1
  /\ \A q \in Runs : run[q].pc \in Finished \cup {"idle"}
  /\ run' = [run EXCEPT ![r] =
       [IdleRun EXCEPT
          !.pc = IF source = "" THEN "scrape"
                 ELSE IF KnownSource(source) THEN "adminOne" ELSE "completed",
          !.i = 1, !.logStart = Len(auditLog), !.startedAt = now,
          !.storeAfter = store, !.trigger = "admin"]]
  /\ started' = started + 1
  /\ UNCHANGED <<store, auditLog, geocodeCache, geoRequests, weatherCache,
                 cacheTimestamp, apiKey, now, ticks, faults>>

\* the admin trigger with a source: await scraper.fn(); a rejection goes to
\* the catch block of the background function, which only prints it
AdminScrapeOne(r, source, outcome) ==
  LET me == run[r]
  IN /\ me.pc = "adminOne" /\ KnownSource(source)
     /\ MayFail(outcome # "ok") /\ Charge(outcome # "ok")
     /\ run' = [run EXCEPT ![r] =
          [me EXCEPT
             !.scraperResults =
               IF outcome = "throw" THEN @
               ELSE <<ScraperReturns(source, outcome)>>,
             !.trace = Append(@, [kind |-> "call", scraper |-> source]),
             !.seen.scrape = Append(@, outcome),
             !.storeAfter = store,
             !.pc = IF outcome = "throw" THEN "aborted" ELSE "adminDedup"]]
     /\ UNCHANGED <<started, store, auditLog, geocodeCache, geoRequests,
                    weatherCache, cacheTimestamp, apiKey, now, ticks>>

\* deduplicatedEvents.map(event => scoreEventForAllGroups(event, undefined))
RECURSIVE ScoreWithoutWeather(_)
ScoreWithoutWeather(events) ==
  IF events = <<>> THEN <<>>
  ELSE <<scoreEventForAllGroups(Head(events), "none")>> \o
       ScoreWithoutWeather(Tail(events))

\* the admin trigger: getAllEvents, deduplicateEvents(allEvents, 0.8) and
\* scoreEventForAllGroups(event, undefined) on every record
AdminDedupScore(r) ==
  LET me == run[r]
      all == getAllEvents(me.scraperResults)
      dedup == deduplicateEvents(all, 8)
      scored == ScoreWithoutWeather(dedup)
  IN /\ me.pc = "adminDedup"
     /\ run' = [run EXCEPT ![r] =
          [me EXCEPT !.allEvents = all, !.deduplicatedEvents = dedup,
                     !.scoredEvents = scored, !.i = 1,
                     !.storeAfter = store,
                     !.pc = IF scored = <<>> THEN "completed"
                            ELSE "adminStore"]]
     /\ UNCHANGED <<started, store, auditLog, geocodeCache, geoRequests,
                    weatherCache, cacheTimestamp, apiKey, now, ticks, faults>>

\* the admin trigger: one iteration of its upsert loop; the background
\* function returns after the last one
AdminStoreOne(r, ok) ==
  LET me == run[r]
      last == me.i = Len(me.scoredEvents)
  IN /\ me.pc = "adminStore"
     /\ MayFail(~ok) /\ Charge(~ok)
     /\ store' = IF ok THEN Upsert(store, RowOf(me.scoredEvents[me.i]))
                 ELSE store
     /\ run' = [run EXCEPT ![r] =
          [me EXCEPT
             !.seen.upsert =
               Append(@, [externalId |-> me.scoredEvents[me.i].event.externalId,
                          ok |-> ok]),
             !.i = IF last THEN 0 ELSE @ + 1,
             !.storeAfter = store',
             !.pc = IF last THEN "completed" ELSE "adminStore"]]
     /\ UNCHANGED <<started, auditLog, geocodeCache, geoRequests, weatherCache,
                    cacheTimestamp, apiKey, now, ticks>>

NextTriggers ==
  \/ \E r \in Runs, trigger \in {"schedule", "manual"} :
       started < MaxTriggered /\ StartRunBy(r, trigger)
       /\ UNCHANGED <<scoreVars, dedupVars>>
  \/ \E r \in Runs, source \in AdminSources :
       started < MaxTriggered /\ StartAdmin(r, source)
       /\ UNCHANGED <<scoreVars, dedupVars>>
  \/ \E r \in Runs, source \in AdminSources, outcome \in {"ok", "partial", "throw"} :
       AdminScrapeOne(r, source, outcome) /\ UNCHANGED <<scoreVars, dedupVars>>
  \/ \E r \in Runs : AdminDedupScore(r) /\ UNCHANGED <<scoreVars, dedupVars>>
  \/ \E r \in Runs, ok \in BOOLEAN :
       AdminStoreOne(r, ok) /\ UNCHANGED <<scoreVars, dedupVars>>
  \/ \E r \in Runs, outcome \in {"ok", "partial", "throw"} :
       Scrape(r, outcome) /\ UNCHANGED <<scoreVars, dedupVars>>
  \/ \E r \in Runs, ok \in BOOLEAN :
       LogResult(r, ok) /\ UNCHANGED <<scoreVars, dedupVars>>
  \/ \E r \in Runs : DedupStep(r) /\ UNCHANGED <<scoreVars, dedupVars>>
  \/ \E r \in Runs, fails \in BOOLEAN :
       ProcessEvent(r, fails) /\ UNCHANGED <<scoreVars, dedupVars>>
  \/ \E r \in Runs, fails \in BOOLEAN :
       FetchForecast(r, fails) /\ UNCHANGED <<scoreVars, dedupVars>>
  \/ \E r \in Runs, fails \in BOOLEAN :
       ScoreOne(r, fails) /\ UNCHANGED <<scoreVars, dedupVars>>
  \/ \E r \in Runs, ok \in BOOLEAN :
       StoreOne(r, ok) /\ UNCHANGED <<scoreVars, dedupVars>>
  \/ \E r \in Runs, ok \in BOOLEAN :
       Archive(r, ok) /\ UNCHANGED <<scoreVars, dedupVars>>
  \/ \E r \in Runs, ok \in BOOLEAN :
       LogWorkflowError(r, ok) /\ UNCHANGED <<scoreVars, dedupVars>>
  \/ Tick /\ UNCHANGED <<scoreVars, dedupVars>>

SpecTriggers == Init /\ [][NextTriggers]_vars

\* a step of run r at either end of the pipeline: a scraper, a row of the
\* audit log, an upsert, the delete of the old rows
OuterStep(r) ==
  /\ \/ \E outcome \in {"ok", "partial", "throw"} : Scrape(r, outcome)
     \/ \E ok \in BOOLEAN : LogResult(r, ok)
     \/ \E ok \in BOOLEAN : StoreOne(r, ok)
     \/ \E ok \in BOOLEAN : Archive(r, ok)
     \/ \E ok \in BOOLEAN : LogWorkflowError(r, ok)
  /\ UNCHANGED <<scoreVars, dedupVars>>

\* a step of run r between collecting and storing: deduplication, one record
\* of processEvents, the forecast, one record of scoreEvents
InnerStep(r) ==
  /\ \/ DedupStep(r)
     \/ \E fails \in BOOLEAN : ProcessEvent(r, fails)
     \/ \E fails \in BOOLEAN : FetchForecast(r, fails)
     \/ \E fails \in BOOLEAN : ScoreOne(r, fails)
  /\ UNCHANGED <<scoreVars, dedupVars>>

\* the positions at which InnerStep is enabled: the guards of its disjuncts
InnerStages == {"dedup", "geocode", "weather", "score"}
\* the positions at which a step of the run is pending
Pending == {"scrape", "log", "store", "prune", "catch"} \cup InnerStages

\* WF_vars(InnerStep(r)) with ENABLED <<InnerStep(r)>>_vars written as the
\* state predicate it equals: each disjunct is guarded by the position alone,
\* and its variant that does not fail needs no fault budget.
InnerFair(r) ==
  []<>(run[r].pc \notin InnerStages) \/ []<><<InnerStep(r)>>_vars

\* The daily workflow when every collaborator call returns or fails within
\* its timeout and the process is not stopped: a run that can take a step
\* eventually takes one.
SpecLive ==
  Init /\ [][Next]_vars
       /\ \A r \in Runs : WF_vars(OuterStep(r)) /\ InnerFair(r)

-----------------------------------------------------------------------------
(* Overlapping runs: a trigger that arrives while a run is in progress.  The
   collaborators answer every call. *)

\* the runs in progress
ActiveRuns == {q \in Runs : run[q].pc \notin Finished \cup {"idle"}}

\* a trigger that starts a run only when no run is in progress
AcceptsWhenIdle(active) == active = {}
\* whether a trigger starts a run while the runs `active` are in progress:
\* neither the cron callback nor the handler of POST /api/scrape/trigger
\* looks at them
Accepts(active) == TRUE

\* the cron callback or POST /api/scrape/trigger calls runDailyScrape
TriggerRun(r, trigger) ==
  /\ started < MaxRuns /\ r = started + 1
  /\ Accepts(ActiveRuns)
  /\ run' = [run EXCEPT ![r] = [IdleRun EXCEPT !.pc = "scrape", !.i = 1,
                                               !.logStart = Len(auditLog),
                                               !.startedAt = now,
                                               !.trigger = trigger]]
  /\ started' = started + 1
  /\ UNCHANGED <<store, auditLog, geocodeCache, geoRequests, weatherCache,
                 cacheTimestamp, apiKey, now, ticks, faults>>

InitOverlap ==
  /\ run = [r \in Runs |-> IdleRun]
  /\ started = 0
  /\ store = <<OldRow, EdgeRow>>
  /\ auditLog = <<>>
  /\ geocodeCache = [k \in GeoKeys |-> NoEntry]
  /\ geoRequests = [k \in GeoKeys |-> 0]
  /\ weatherCache = NoWeatherCache
  /\ cacheTimestamp = 0
  /\ apiKey \in BOOLEAN
  /\ now = FirstRunAt
  /\ ticks = 0
  /\ faults = MaxFaults
  /\ ScoreIdle /\ DedupIdle

NextOverlap ==
  \/ \E r \in Runs, trigger \in {"schedule", "manual"} :
       TriggerRun(r, trigger) /\ UNCHANGED <<scoreVars, dedupVars>>
  \/ \E r \in Runs : Scrape(r, "ok") /\ UNCHANGED <<scoreVars, dedupVars>>
  \/ \E r \in Runs : LogResult(r, TRUE) /\ UNCHANGED <<scoreVars, dedupVars>>
  \/ \E r \in Runs : DedupStep(r) /\ UNCHANGED <<scoreVars, dedupVars>>
  \/ \E r \in Runs :
       ProcessEvent(r, FALSE) /\ UNCHANGED <<scoreVars, dedupVars>>
  \/ \E r \in Runs :
       FetchForecast(r, FALSE) /\ UNCHANGED <<scoreVars, dedupVars>>
  \/ \E r \in Runs : ScoreOne(r, FALSE) /\ UNCHANGED <<scoreVars, dedupVars>>
  \/ \E r \in Runs : StoreOne(r, TRUE) /\ UNCHANGED <<scoreVars, dedupVars>>
  \/ \E r \in Runs : Archive(r, TRUE) /\ UNCHANGED <<scoreVars, dedupVars>>

SpecOverlap == InitOverlap /\ [][NextOverlap]_vars

-----------------------------------------------------------------------------
(* The geocoding stage of overlapping runs.  geocodeAddress gives up control
   between its cache check and the answer of the geocoder (the awaits of the
   delay and of the request), so the lookups of two runs interleave there. *)

\* the location string processEvents hands to the geocoder for the record
\* the run is at
AddressAt(me) ==
  LET event == me.deduplicatedEvents[me.i]
  IN IF event.address # <<>> THEN event.address ELSE event.locationName

\* whether geocodeAddress would send a request for the record the run is at:
\* the record has a location, it is not blank, and its key is not cached
SendsRequest(me) ==
  /\ AddressAt(me) # <<>>
  /\ trim(AddressAt(me)) # <<>>
  /\ ~geocodeCache[cacheKey(AddressAt(me))].has

\* one iteration of processEvents that is answered without a request
GeoAnswered(r) ==
  /\ run[r].pc = "geocode" /\ ~SendsRequest(run[r])
  /\ ProcessEvent(r, FALSE)

\* geocodeAddress up to its awaits: the cache has no entry, the request is
\* on its way
GeoBegin(r) ==
  LET me == run[r]
  IN /\ me.pc = "geocode" /\ SendsRequest(me)
     /\ run' = [run EXCEPT ![r].pc = "request"]
     /\ geoRequests' = [geoRequests EXCEPT ![cacheKey(AddressAt(me))] = @ + 1]
     /\ UNCHANGED <<started, store, auditLog, geocodeCache, weatherCache,
                    cacheTimestamp, apiKey, now, ticks, faults>>

\* geocodeAddress from the answer of the geocoder on (fails: the request
\* threw), and the rest of the iteration of processEvents
GeoEnd(r, fails) ==
  LET me == run[r]
      event == me.deduplicatedEvents[me.i]
      address == AddressAt(me)
      key == cacheKey(address)
      result == IF fails THEN Null ELSE Nominatim(address)
      last == me.i = Len(me.deduplicatedEvents)
  IN /\ me.pc = "request"
     /\ MayFail(fails) /\ Charge(fails)
     /\ geocodeCache' = IF fails THEN CacheFailure(geocodeCache, key)
                        ELSE [geocodeCache EXCEPT ![key] = Entry(result)]
     /\ run' = [run EXCEPT ![r] =
          [me EXCEPT
             !.geocodedEvents = processEvent(@, event, WithDistance(result)),
             !.seen.geo = Append(@, [externalId |-> event.externalId,
                                     result |-> result]),
             !.lookups = Append(@, [address |-> address, requested |-> TRUE,
                                    result |-> result]),
             !.i = IF last THEN 0 ELSE @ + 1,
             !.pc = IF last THEN "weather" ELSE "geocode"]]
     /\ UNCHANGED <<started, store, auditLog, geoRequests, weatherCache,
                    cacheTimestamp, apiKey, now, ticks>>

\* clearGeocodeCache()
clearGeocodeCache ==
  /\ geocodeCache' = [k \in GeoKeys |-> NoEntry]
  /\ UNCHANGED <<run, started, store, auditLog, geoRequests, weatherCache,
                 cacheTimestamp, apiKey, now, ticks, faults>>

InitGeo ==
  /\ run = [r \in Runs |-> IdleRun]
  /\ started = 0
  /\ store = <<OldRow, EdgeRow>>
  /\ auditLog = <<>>
  /\ geocodeCache = [k \in GeoKeys |-> NoEntry]
  /\ geoRequests = [k \in GeoKeys |-> 0]
  /\ weatherCache = NoWeatherCache
  /\ cacheTimestamp = 0
  /\ apiKey = TRUE
  /\ now = FirstRunAt
  /\ ticks = 0
  /\ faults = MaxFaults - 1
  /\ ScoreIdle /\ DedupIdle

\* A scheduled run and a manual trigger that arrives while the scheduled run
\* is geocoding, both up to the end of processEvents, one request that fails,
\* and a caller of clearGeocodeCache.
NextGeo ==
  \/ \E r \in Runs :
       started = 0 /\ TriggerRun(r, "schedule")
       /\ UNCHANGED <<scoreVars, dedupVars>>
  \/ \E r \in Runs :
       started > 0 /\ run[1].pc \in {"geocode", "request"}
       /\ TriggerRun(r, "manual") /\ UNCHANGED <<scoreVars, dedupVars>>
  \/ \E r \in Runs : Scrape(r, "ok") /\ UNCHANGED <<scoreVars, dedupVars>>
  \/ \E r \in Runs : LogResult(r, TRUE) /\ UNCHANGED <<scoreVars, dedupVars>>
  \/ \E r \in Runs : DedupStep(r) /\ UNCHANGED <<scoreVars, dedupVars>>
  \/ \E r \in Runs : GeoAnswered(r) /\ UNCHANGED <<scoreVars, dedupVars>>
  \/ \E r \in Runs : GeoBegin(r) /\ UNCHANGED <<scoreVars, dedupVars>>
  \/ \E r \in Runs, fails \in BOOLEAN :
       GeoEnd(r, fails) /\ UNCHANGED <<scoreVars, dedupVars>>
  \/ /\ \E k \in GeoKeys : geocodeCache[k] = Entry(Null)
     /\ clearGeocodeCache /\ UNCHANGED <<scoreVars, dedupVars>>

SpecGeo == InitGeo /\ [][NextGeo]_vars

-----------------------------------------------------------------------------
(* The scoring engine on one record *)

InitScore ==
  /\ sEvent \in ScoreInputs
  /\ sPhase = "input" /\ sGroup = "family" /\ sWeather = "none"
  /\ sResult = NoResult /\ sScored = NoScored
  /\ DedupIdle /\ PipeIdle

\* scoreEvent(sEvent, g, w)
Score(g, w) ==
  /\ sPhase = "input"
  /\ sPhase' = "scored" /\ sGroup' = g /\ sWeather' = w
  /\ sResult' = scoreEvent(sEvent, g, w)
  /\ UNCHANGED <<sEvent, sScored>>

\* scoreEventForAllGroups(sEvent, w)
ScoreAll(w) ==
  /\ sPhase = "input"
  /\ sPhase' = "scoredAll" /\ sWeather' = w
  /\ sScored' = scoreEventForAllGroups(sEvent, w)
  /\ UNCHANGED <<sEvent, sGroup, sResult>>

NextScore ==
  \/ \E g \in AgeGroups, w \in Weathers : Score(g, w) /\ UNCHANGED <<dedupVars, pipeVars>>
  \/ \E w \in Weathers : ScoreAll(w) /\ UNCHANGED <<dedupVars, pipeVars>>

SpecScore == InitScore /\ [][NextScore]_vars

-----------------------------------------------------------------------------
(* The deduplication engine on one list of records *)

InitDedup ==
  /\ dEvents \in SeqsUpTo(RawUniverse, MaxEvents)
  /\ dThreshold \in Thresholds
  /\ dPhase = "input" /\ dPair = <<0, 0>>
  /\ dScore = Ratio(0, 1) /\ dTitleSim = Ratio(0, 1)
  /\ dOut = <<>> /\ dOut2 = <<>>
  /\ ScoreIdle /\ PipeIdle

\* calculateDuplicateScore(dEvents[i], dEvents[j]) and the title similarity
\* it starts from
Compare(i, j) ==
  /\ dPhase = "input"
  /\ dPhase' = "compared" /\ dPair' = <<i, j>>
  /\ dScore' = calculateDuplicateScore(dEvents[i], dEvents[j])
  /\ dTitleSim' = stringSimilarity(normalizeTitle(dEvents[i].title),
                                   normalizeTitle(dEvents[j].title))
  /\ UNCHANGED <<dEvents, dThreshold, dOut, dOut2>>

\* deduplicateEvents(dEvents, dThreshold)
Deduplicate ==
  /\ dPhase = "input"
  /\ dPhase' = "once"
  /\ dOut' = deduplicateEvents(dEvents, dThreshold)
  /\ UNCHANGED <<dEvents, dThreshold, dPair, dScore, dTitleSim, dOut2>>

\* deduplicateEvents on the list the first call returned
DeduplicateAgain ==
  /\ dPhase = "once"
  /\ dPhase' = "twice"
  /\ dOut2' = deduplicateEvents(dOut, dThreshold)
  /\ UNCHANGED <<dEvents, dThreshold, dPair, dScore, dTitleSim, dOut>>

NextDedup ==
  \/ \E i, j \in 1..Len(dEvents) : Compare(i, j) /\ UNCHANGED <<scoreVars, pipeVars>>
  \/ Deduplicate /\ UNCHANGED <<scoreVars, pipeVars>>
  \/ DeduplicateAgain /\ UNCHANGED <<scoreVars, pipeVars>>

SpecDedup == InitDedup /\ [][NextDedup]_vars

-----------------------------------------------------------------------------
(* Claims about the scoring engine, under SpecScore *)

\* C1: for every record, every audience profile and every weather value the
\* score returned by scoreEvent is an integer in 0..100, and so are the
\* three scores of the record returned by scoreEventForAllGroups.
C1_ScoreInRange ==
  /\ sPhase = "scored" => sResult.score \in 0..100
  /\ sPhase = "scoredAll" =>
       /\ sScored.scoreToddler \in 0..100
       /\ sScored.scoreChild \in 0..100
       /\ sScored.scoreFamily \in 0..100

-----------------------------------------------------------------------------
(* Claims about the deduplication engine, under SpecDedup *)

\* C2: deduplication is idempotent: deduplicating the output of
\* deduplicateEvents with the same threshold returns that output unchanged.
C2_DedupIdempotent == dPhase = "twice" => dOut2 = dOut

\* C3: the title similarity of a title with itself is exactly 1, and the
\* composite duplicate score is symmetric: calculateDuplicateScore(a, b)
\* equals calculateDuplicateScore(b, a), so isDuplicate agrees both ways
\* for every threshold.
C3_SimilaritySymmetric ==
  dPhase = "compared" =>
    LET a == dEvents[dPair[1]]
        b == dEvents[dPair[2]]
    IN /\ a.title = b.title => dTitleSim.num = dTitleSim.den
       /\ RatioEq(dScore, calculateDuplicateScore(b, a))
       /\ isDuplicate(a, b, dThreshold) = isDuplicate(b, a, dThreshold)

\* C3 witness: two different records with different titles, locations and
\* prices have been compared and are neither unrelated nor identical.
C3_Witness ==
  /\ dPhase = "compared"
  /\ dPair[1] # dPair[2]
  /\ LET a == dEvents[dPair[1]]
         b == dEvents[dPair[2]]
     IN /\ a.title # b.title
        /\ LocationOf(a) # <<>> /\ LocationOf(b) # <<>>
        /\ LocationOf(a) # LocationOf(b)
        /\ a.adultPrice # Undef /\ b.adultPrice # Undef
        /\ a.adultPrice # b.adultPrice
        /\ dScore.num > 0 /\ dScore.num < dScore.den

-----------------------------------------------------------------------------
(* Claims about the daily workflow, under Spec *)

Range(s) == {s[k] : k \in 1..Len(s)}
Located(e) == e.address # <<>> \/ e.locationName # <<>>
\* the records of the first n inputs the claim C4 says are output, in order
RECURSIVE WithinRadius(_, _, _)
WithinRadius(events, answers, n) ==
  IF n = 0 THEN <<>>
  ELSE LET rest == WithinRadius(events, answers, n - 1)
           e == events[n]
           a == answers[n].result
       IN IF ~Located(e) THEN rest
          ELSE IF ~a.found THEN Append(rest, e)
          ELSE IF distanceFromPrague(a.latitude, a.longitude) <= 1300
          THEN Append(rest,
                      [e EXCEPT !.latitude = a.latitude,
                                !.longitude = a.longitude,
                                !.distanceFromPrague =
                                  distanceFromPrague(a.latitude, a.longitude)])
          ELSE rest

\* C4: at every point of processEvents its output is, in input order,
\* exactly the inputs handled so far that have an address or a locationName
\* and whose geocoding failed or gave a distance of at most 130 km; the
\* geocoding service was called once per input that has a location string
\* and never for the others; and an input whose geocoding failed is output
\* without latitude, longitude and distance.
C4_SpatialFilter ==
  \A r \in Runs :
    LET me == run[r]
        n == Len(me.seen.geo)
        input == me.deduplicatedEvents
    IN /\ n <= Len(input)
       /\ me.pc \in {"weather", "score", "store", "prune", "completed"} =>
            n = Len(input)
       /\ me.geocodedEvents = WithinRadius(input, me.seen.geo, n)
       /\ Len(me.lookups) = Cardinality({k \in 1..n : Located(input[k])})
       /\ \A k \in 1..n :
            Located(input[k]) /\ ~me.seen.geo[k].result.found =>
              \E e \in Range(me.geocodedEvents) :
                /\ e.externalId = input[k].externalId
                /\ e.latitude = Undef /\ e.longitude = Undef
                /\ e.distanceFromPrague = Undef

\* C4 witness: processEvents has returned for an input with a record
\* without location, a record resolved beyond 130 km, a record resolved at
\* exactly 130 km that was kept, and records kept after a lookup that found
\* nothing and after a lookup that failed.
C4_Witness ==
  \E r \in Runs :
    LET me == run[r]
        input == me.deduplicatedEvents
        D(k) == distanceFromPrague(me.seen.geo[k].result.latitude,
                                   me.seen.geo[k].result.longitude)
    IN /\ me.pc = "weather"
       /\ \E k \in 1..Len(input) : ~Located(input[k])
       /\ \E k \in 1..Len(input) : me.seen.geo[k].result.found /\ D(k) = 1301
       /\ \E k \in 1..Len(input) :
            /\ me.seen.geo[k].result.found /\ D(k) = 1300
            /\ \E e \in Range(me.geocodedEvents) :
                 e.externalId = input[k].externalId
                 /\ e.distanceFromPrague = 1300
       /\ \E k \in 1..Len(me.lookups) :
            me.lookups[k].requested /\ ~me.lookups[k].result.found
            /\ Nominatim(me.lookups[k].address).found
       /\ \E k \in 1..Len(me.lookups) :
            me.lookups[k].requested /\ ~me.lookups[k].result.found
            /\ ~Nominatim(me.lookups[k].address).found
       /\ Len(me.geocodedEvents) >= 3

\* the events of the scrapers that returned, in the order of the scrapers
RECURSIVE ReturnedEvents(_, _)
ReturnedEvents(outcomes, n) ==
  IF n = 0 THEN <<>>
  ELSE ReturnedEvents(outcomes, n - 1) \o
       (IF outcomes[n] = "throw" THEN <<>>
        ELSE ScraperReturns(SCRAPERS[n], outcomes[n]).events)

Calls(trace) == SelectSeq(trace, LAMBDA t : t.kind = "call")

\* C5: whatever scrapers throw or report errors, once runAllScrapers has
\* returned every configured scraper has been called once, in order, and
\* there is exactly one result per scraper, in order; a run is cut short
\* only by a failed audit write or a failed delete, never by a scraper; and
\* the records of the scrapers that returned are the input of
\* deduplication, every record that passes the filter is scored, and every
\* scored record is persisted by a run in which every upsert succeeds.
C5_ScraperFailuresTolerated ==
  \A r \in Runs :
    LET me == run[r]
    IN /\ me.pc \notin {"idle", "scrape"} =>
            /\ Len(me.scraperResults) = Len(SCRAPERS)
            /\ \A k \in 1..Len(SCRAPERS) :
                 me.scraperResults[k].source = SCRAPERS[k]
            /\ [k \in 1..Len(Calls(me.trace)) |-> Calls(me.trace)[k].scraper]
                 = SCRAPERS
       /\ me.pc \in {"catch", "aborted", "threw"} =>
            FALSE \in Range(me.seen.audit) \cup Range(me.seen.prune)
       /\ me.pc \in {"geocode", "weather", "score", "store", "prune",
                     "completed"} =>
            me.allEvents = ReturnedEvents(me.seen.scrape, Len(SCRAPERS))
       /\ me.pc \in {"store", "prune", "completed"} =>
            [k \in 1..Len(me.scoredEvents) |-> me.scoredEvents[k].event]
              = me.geocodedEvents
       /\ (me.pc = "prune" /\ \A k \in 1..Len(me.seen.upsert) :
                                me.seen.upsert[k].ok) =>
            \A e \in Range(me.scoredEvents) : RowOf(e) \in Range(store)

\* C5 witness: a run in which one scraper threw and the other reported an
\* error has stored records of the scraper that returned and has completed.
C5_Witness ==
  \E r \in Runs :
    LET me == run[r]
    IN /\ me.pc = "completed"
       /\ "throw" \in Range(me.seen.scrape)
       /\ "partial" \in Range(me.seen.scrape)
       /\ me.scoredEvents # <<>>
       /\ \A e \in Range(me.scoredEvents) : RowOf(e) \in Range(store)

\* C6: in storeEvents the scored records receive one upsert attempt each, in
\* order, whether or not earlier attempts failed; the rows whose upsert
\* succeeded are in the store when the loop ends; and after the last attempt
\* the run goes to the pruning step and nowhere else.
C6_StoreContinues ==
  \A r \in Runs :
    LET me == run[r]
        n == Len(me.seen.upsert)
    IN /\ \A k \in 1..n :
            /\ k <= Len(me.scoredEvents)
            /\ me.seen.upsert[k].externalId
                 = me.scoredEvents[k].event.externalId
       /\ me.pc = "store" => n = me.i - 1 /\ n < Len(me.scoredEvents)
       /\ (me.pc # "store" /\ n > 0) =>
            /\ n = Len(me.scoredEvents)
            /\ me.pc = "prune" \/ Len(me.seen.prune) = 1
       /\ me.pc \in {"store", "prune"} =>
            \A k \in 1..n :
              me.seen.upsert[k].ok =>
                RowOf(me.scoredEvents[k]) \in Range(store)

\* C6 witness: the loop of storeEvents has ended after an upsert failed and
\* a later one succeeded, the row of the later one is in the store, and the
\* run is at the pruning step.
C6_Witness ==
  \E r \in Runs :
    LET me == run[r]
    IN /\ me.pc = "prune"
       /\ \E j, k \in 1..Len(me.seen.upsert) :
            /\ j < k
            /\ ~me.seen.upsert[j].ok /\ me.seen.upsert[k].ok
            /\ RowOf(me.scoredEvents[j]) \notin Range(store)
            /\ RowOf(me.scoredEvents[k]) \in Range(store)

\* C7: a successful archiveOldEvents removes from the store exactly the rows
\* whose startDateTime is more than 30 days (720 hours) before the current
\* time; the rows that start at or after that instant stay, unchanged and
\* in their order, and no row is added.
C7_PruneExact ==
  [][\A r \in Runs :
       (run[r].pc = "prune" /\ run'[r].pc = "completed") =>
         /\ \A row \in Range(store) :
              row \in Range(store') <=> row.event.startDateTime >= now - 720
         /\ \A k \in 1..Len(store') :
              \E j \in k..Len(store) : store'[k] = store[j]
         /\ Len(store') =
              Cardinality({k \in 1..Len(store) :
                             store[k].event.startDateTime >= now - 720})]_vars

\* C7 witness: after a completed run the row that started 30 days and one
\* hour before the run is gone, and the row that started exactly 30 days
\* before it is still in the store, next to the rows of the run.
C7_Witness ==
  /\ run[1].pc = "completed" /\ ticks = 0
  /\ OldRow \notin Range(store)
  /\ EdgeRow \in Range(store)
  /\ EdgeRow.event.startDateTime = now - 720
  /\ Len(store) > 1

\* no two rows of the store have the same externalId
UniqueIds(rows) ==
  \A j, k \in 1..Len(rows) :
    rows[j].event.externalId = rows[k].event.externalId => j = k

AuditRowsOf(r) ==
  LET to == IF r < started THEN run[r + 1].logStart ELSE Len(auditLog)
  IN SubSeq(auditLog, run[r].logStart + 1, to)

\* C9: a run in which an audit write or the delete failed ends by returning
\* (it does not throw), with exactly one audit row of source 'workflow' and
\* status 'error' written by it, and with no stage executed after the
\* failure.
C9_WorkflowErrorLogged ==
  \A r \in Runs :
    LET me == run[r]
        escaped == FALSE \in Range(me.seen.audit) \cup Range(me.seen.prune)
        workflowRows ==
          SelectSeq(AuditRowsOf(r),
                    LAMBDA a : a.source = "workflow" /\ a.status = "error")
    IN (me.pc \in Finished /\ escaped) =>
         /\ me.pc = "aborted"
         /\ Len(workflowRows) = 1
         /\ me.seen.prune = <<FALSE>> \/
              (me.deduplicatedEvents = <<>> /\ me.seen.upsert = <<>>
               /\ me.seen.prune = <<>>)

\* the calls of geocodeAddress of the runs 1..r, in order
RECURSIVE LookupsUpTo(_)
LookupsUpTo(r) == IF r = 0 THEN <<>> ELSE LookupsUpTo(r - 1) \o run[r].lookups

\* C10: over the lifetime of the process the geocoder is requested at most
\* once per cache key (the address lower-cased and trimmed): of the calls
\* of geocodeAddress with the same key only the first sends a request, and
\* every later one returns the result of the first.
C10_GeocodeOncePerAddress ==
  LET all == LookupsUpTo(MaxRuns)
  IN /\ \A key \in GeoKeys : geoRequests[key] <= 1
     /\ \A j, k \in 1..Len(all) :
          (j < k /\ cacheKey(all[j].address) = cacheKey(all[k].address)
           /\ cacheKey(all[j].address) # <<>>) =>
            ~all[k].requested /\ all[k].result = all[j].result

\* C10 witness: an address was looked up, the request failed, and later
\* calls in the same run and in the next run, one of them with a different
\* spelling of the address, were answered without a request.
C10_Witness ==
  LET all == LookupsUpTo(MaxRuns)
  IN \E j, k, m \in 1..Len(all) :
       /\ j < k /\ k < m
       /\ all[j].requested /\ ~all[j].result.found
       /\ Nominatim(all[j].address).found
       /\ all[j].address # all[k].address
       /\ cacheKey(all[j].address) = cacheKey(all[k].address)
       /\ cacheKey(all[j].address) = cacheKey(all[m].address)
       /\ j <= Len(run[1].lookups) /\ k <= Len(run[1].lookups)
       /\ m > Len(run[1].lookups)
       /\ geoRequests[cacheKey(all[j].address)] = 1

-----------------------------------------------------------------------------
(* Claims about the triggers, under SpecTriggers *)

\* C11: whatever triggered it (the schedule, the manual trigger, or the
\* administrative trigger with or without a source), a run that has called
\* a scraper and has completed has performed the stages of the orchestrator: it has resolved
\* the location of every deduplicated record, has looked up the weather of
\* every record it scored, has pruned the store, and has written one audit
\* row per scraper result.
C11_TriggersSameStages ==
  \A r \in Runs :
    LET me == run[r]
    IN (me.trigger # "none" /\ me.pc = "completed" /\ me.trace # <<>>) =>
         /\ Len(me.seen.geo) = Len(me.deduplicatedEvents)
         /\ Len(me.seen.weather) = Len(me.scoredEvents)
         /\ me.seen.prune = <<TRUE>>
         /\ Len(AuditRowsOf(r)) = Len(me.scraperResults)
         /\ Len(me.scraperResults) = Len(SCRAPERS)

-----------------------------------------------------------------------------
(* Further claims about the daily workflow, under Spec *)

\* C12: during one run the weather provider is requested at most once,
\* whether or not the request succeeds and however many records are scored.
C12_WeatherOncePerRun == \A r \in Runs : run[r].weatherRequests <= 1

-----------------------------------------------------------------------------
(* Further claims about the scoring engine, under SpecScore *)

\* the weight of a field group of C13 when the group is present
Weight(present, w) == IF present THEN w ELSE 0
\* the sum w of the weights of the field groups present in a record
PresentWeight(e) ==
    Weight(e.ageMin # Undef /\ e.ageMax # Undef, 2)
  + Weight(e.distanceFromPrague # Undef, 2)
  + Weight(\E f \in {"adultPrice", "childPrice", "familyPrice"} : e[f] # Undef, 1)
  + Weight(e.durationMinutes # Undef, 1)
  + Weight(e.description.len > 50, 1)
  + Weight(e.imageUrl # "", 1)

\* C13: the completeness multiplier of every scored record is
\* 0.7 + 0.3 * (w / 8) (in eightieths: 56 + 3 * w) for the sum w of the
\* weights of the field groups present; it is 0.7 when none is present, 1.0
\* when all are, and always between 0.7 and 1.0.
C13_CompletenessMultiplier ==
  sPhase \in {"scored", "scoredAll"} =>
    LET m == calculateDataCompletenessMultiplier(sEvent)
        w == PresentWeight(sEvent)
    IN /\ m = 56 + 3 * w
       /\ w = 0 => m = 56
       /\ w = 8 => m = 80
       /\ m >= 56 /\ m <= 80

\* C13 witness: a record with one age bound only, a short description and
\* a child price only has been scored; its multiplier is neither 0.7 nor
\* 1.0.
C13_Witness ==
  /\ sPhase = "scored"
  /\ sEvent.ageMin # Undef /\ sEvent.ageMax = Undef
  /\ sEvent.description.len > 0 /\ sEvent.description.len <= 50
  /\ PresentWeight(sEvent) \in 1..7
  /\ calculateDataCompletenessMultiplier(sEvent) = 56 + 3 * PresentWeight(sEvent)

-----------------------------------------------------------------------------
(* Further claims about the deduplication engine, under SpecDedup *)

\* C14: the records titled 'Koncert v Parku' and 'Koncert v parku!', with
\* the same start, the same location string and adult prices 100 and 110,
\* have a duplicate score of at least 0.8 in either order, and
\* deduplicateEvents with threshold 0.8 returns for the two of them, in
\* either order, one record whose adultPrice is 100.
C14_KoncertMerged ==
  /\ (dPhase = "compared"
      /\ {dEvents[dPair[1]], dEvents[dPair[2]]} = {KoncertA, KoncertB}) =>
       RatioGeqTenths(dScore, 8)
  /\ (dPhase = "once" /\ dThreshold = 8
      /\ dEvents \in {<<KoncertA, KoncertB>>, <<KoncertB, KoncertA>>}) =>
       Len(dOut) = 1 /\ dOut[1].adultPrice = 100

\* C14 witness: the list with the record priced 110 first and the record
\* priced 100 second has been deduplicated with threshold 0.8.
C14_Witness ==
  /\ dPhase = "once" /\ dThreshold = 8
  /\ dEvents = <<KoncertB, KoncertA>>
  /\ Len(dOut) = 1 /\ dOut[1].adultPrice = 100
  /\ dOut[1].externalId = "k9"

-----------------------------------------------------------------------------
(* Further claims about the scoring engine, under SpecScore *)

\* C15: the record with ageMin 3, ageMax 6, 5 km from the origin, adult
\* price 0, outdoor, on a Saturday morning, with an optimal duration, scored
\* for the toddler (Infant) profile in favourable weather, has the factors
\* age 25, distance 15, price 15, type at least 13, timing 10 and
\* duration 10, and the final score 100.
C15_ScenarioInfant ==
  (sPhase = "scored" /\ sEvent = ScenarioEvent /\ sGroup = "toddler"
   /\ sWeather = "good") =>
    /\ sResult.factors.ageAppropriatenessScore = 25
    /\ sResult.factors.distanceScore = 15
    /\ sResult.factors.priceScore = 15
    /\ sResult.factors.eventTypeScore >= 13
    /\ sResult.factors.timingScore = 10
    /\ sResult.factors.durationScore = 10
    /\ sResult.score = 100

\* a record with every optional field of RawEvent / GeocodedEvent absent
WithoutOptional(e) ==
  [BlankEvent EXCEPT
     !.externalId = e.externalId, !.source = e.source, !.title = e.title,
     !.startDateTime = e.startDateTime]

\* C16: for every profile the scenario record of C15 with every optional
\* field absent scores strictly lower than the scenario record, and a record
\* with all optional data absent never scores higher than the same record
\* with complete data (all the field groups of the completeness multiplier
\* present).
C16_CompleteNeverLower ==
  sPhase = "scored" =>
    /\ sEvent = ScenarioEvent =>
         /\ WithoutOptional(sEvent) = BareEvent
         /\ scoreEvent(BareEvent, sGroup, sWeather).score < sResult.score
    /\ PresentWeight(sEvent) = 8 =>
         scoreEvent(WithoutOptional(sEvent), sGroup, sWeather).score
           <= sResult.score

\* C17: each factor computed by scoreEvent lies in its range: age 0..25,
\* distance 0..15, price 0..15, type 0..15, timing 0..10, duration 0..10,
\* seasonality 0..5.
C17_FactorsInRange ==
  sPhase = "scored" =>
    /\ sResult.factors.ageAppropriatenessScore \in 0..25
    /\ sResult.factors.distanceScore \in 0..15
    /\ sResult.factors.priceScore \in 0..15
    /\ sResult.factors.eventTypeScore \in 0..15
    /\ sResult.factors.timingScore \in 0..10
    /\ sResult.factors.durationScore \in 0..10
    /\ sResult.factors.seasonalityScore \in 0..5

\* the age factor at a whole-year distance d > 0 outside a known bound
AgeStep(d) ==
  IF d <= 1 THEN 15 ELSE IF d <= 2 THEN 10 ELSE IF d <= 4 THEN 5 ELSE 0

\* C18: for a profile with a target age T (toddler 2, child 8), a record
\* whose age bounds are both known with 0 <= ageMin <= T <= ageMax has the
\* age factor 25; when T lies outside a known bound the factor is 15, 10, 5
\* or 0 by the whole-year distance from that bound.
C18_AgeFactor ==
  (sPhase = "scored" /\ sGroup \in {"toddler", "child"}) =>
    LET T == TargetAge(sGroup)
        age == sResult.factors.ageAppropriatenessScore
    IN /\ (sEvent.ageMin # Undef /\ sEvent.ageMax # Undef
           /\ 0 <= sEvent.ageMin /\ sEvent.ageMin <= T /\ T <= sEvent.ageMax) =>
            age = 25
       /\ (sEvent.ageMin # Undef /\ T < sEvent.ageMin) =>
            age = AgeStep(sEvent.ageMin - T)
       /\ (sEvent.ageMax # Undef /\ T > sEvent.ageMax) =>
            age = AgeStep(T - sEvent.ageMax)

\* the prices of a record that are present
PricesPresent(e) ==
  {f \in {"adultPrice", "childPrice", "familyPrice"} : e[f] # Undef}
\* the effective family price of C19: the smaller of the family price and
\* of two adults and one child, over the prices that are present
EffectivePrice(e) ==
  LET present(f) == f \in PricesPresent(e)
      individual == (IF present("adultPrice") THEN 2 * e.adultPrice ELSE 0)
                    + (IF present("childPrice") THEN e.childPrice ELSE 0)
  IN IF ~present("familyPrice") THEN individual
     ELSE IF ~present("adultPrice") /\ ~present("childPrice")
          THEN e.familyPrice
     ELSE Min2(e.familyPrice, individual)
\* the band of a price
PriceBand(price) ==
  IF price = 0 THEN 15 ELSE IF price < 200 THEN 12 ELSE IF price < 500 THEN 8
  ELSE IF price < 1000 THEN 4 ELSE 2

\* C19: when at least one price of a record is known the price factor is
\* the band of its effective family price (15 if 0, 12 below 200, 8 below
\* 500, 4 below 1000, else 2); the factor 3 is returned only when all three
\* prices are unknown, and the factor 15 only when the effective price is 0.
C19_PriceFactor ==
  sPhase = "scored" =>
    LET known == PricesPresent(sEvent) # {}
        priceScore == sResult.factors.priceScore
    IN /\ known => priceScore = PriceBand(EffectivePrice(sEvent))
       /\ priceScore = 3 => ~known
       /\ priceScore = 15 => known /\ EffectivePrice(sEvent) = 0

\* the band of a distance in tenths of a kilometre
DistanceBand(d) ==
  IF d < 100 THEN 15 ELSE IF d < 300 THEN 10 ELSE IF d < 700 THEN 5
  ELSE IF d < 1300 THEN 2 ELSE 0

\* C20: for every known distance d >= 0 the distance factor is 15 below
\* 10 km, 10 below 30 km, 5 below 70 km, 2 below 130 km and 0 otherwise; the
\* factor 3 is returned only when the record has no distance.
C20_DistanceFactor ==
  sPhase = "scored" =>
    /\ sEvent.distanceFromPrague # Undef =>
         sResult.factors.distanceScore = DistanceBand(sEvent.distanceFromPrague)
    /\ sResult.factors.distanceScore = 3 => sEvent.distanceFromPrague = Undef

-----------------------------------------------------------------------------
(* Claims about the groups of deduplicateEvents, under SpecDedup *)

\* the invariants of a RawEvent: ageMin <= ageMax when both are present, and
\* no negative price
RawInvariant(e) ==
  /\ (e.ageMin # Undef /\ e.ageMax # Undef) => e.ageMin <= e.ageMax
  /\ \A f \in {"adultPrice", "childPrice", "familyPrice"} :
       e[f] # Undef => e[f] >= 0

\* C21: when every record handed to deduplicateEvents has ageMin <= ageMax
\* (both present) and no negative price, so has every record it returns,
\* merged records included.
C21_DedupKeepsInvariants ==
  (dPhase = "once" /\ \A k \in 1..Len(dEvents) : RawInvariant(dEvents[k])) =>
    \A k \in 1..Len(dOut) : RawInvariant(dOut[k])

\* the records of a list at the indices of a set, in list order
RECURSIVE Picked(_, _, _)
Picked(events, members, k) ==
  IF k > Len(events) THEN <<>>
  ELSE IF k \in members THEN <<events[k]>> \o Picked(events, members, k + 1)
  ELSE Picked(events, members, k + 1)

\* the merge groups of deduplicateEvents from index i on: for each record it
\* returns, the indices of the input records merged into it
RECURSIVE MergeGroupsFrom(_, _, _, _, _)
MergeGroupsFrom(events, i, processed, groups, threshold) ==
  IF i > Len(events) THEN groups
  ELSE IF i \in processed
    THEN MergeGroupsFrom(events, i + 1, processed, groups, threshold)
  ELSE LET r == MergeScan(events, i, i + 1, events[i], processed \cup {i},
                          threshold)
       IN MergeGroupsFrom(events, i + 1, r.processed,
                          Append(groups, r.processed \ processed), threshold)
MergeGroups(events, threshold) ==
  MergeGroupsFrom(events, 1, {}, <<>>, threshold)
\* the groups of two or more records, as lists of records
MergedRecords(events, groups) ==
  LET many == SelectSeq(groups, LAMBDA g : Cardinality(g) > 1)
  IN [k \in 1..Len(many) |-> Picked(events, many[k], 1)]

\* C22: a later record b is merged into the group of the first surviving
\* record a exactly when the duplicate score of the original a and b reaches
\* the threshold; the groups of two or more records merged by
\* deduplicateEvents are the groups findDuplicateGroups reports.
C22_GroupsAsReported ==
  dPhase = "once" =>
    LET groups == MergeGroups(dEvents, dThreshold)
    IN /\ Len(groups) = Len(dOut)
       /\ MergedRecords(dEvents, groups)
            = findDuplicateGroups(dEvents, dThreshold)

\* the smallest index of a group
First(g) == CHOOSE k \in g : \A m \in g : k <= m
\* the sources of a list of records, concatenated
RECURSIVE SourcesOf(_)
SourcesOf(events) ==
  IF events = <<>> THEN <<>>
  ELSE Head(events).source \o SourcesOf(Tail(events))

\* C23: deduplicateEvents partitions its input: every input record is in
\* exactly one merge group, one record is returned per group in the order
\* of the groups' first records, each returned record has the externalId
\* and startDateTime of the first record of its group and the sources of
\* the members of its group in input order, and the output is not longer
\* than the input.
C23_DedupPartitions ==
  dPhase = "once" =>
    LET groups == MergeGroups(dEvents, dThreshold)
        n == Len(groups)
    IN /\ Len(dOut) = n
       /\ UNION {groups[k] : k \in 1..n} = 1..Len(dEvents)
       /\ \A k \in 1..n : groups[k] # {}
       /\ \A j, k \in 1..n : j # k => groups[j] \cap groups[k] = {}
       /\ \A j, k \in 1..n : j < k => First(groups[j]) < First(groups[k])
       /\ \A k \in 1..n :
            /\ dOut[k].externalId = dEvents[First(groups[k])].externalId
            /\ dOut[k].startDateTime = dEvents[First(groups[k])].startDateTime
            /\ dOut[k].source = SourcesOf(Picked(dEvents, groups[k], 1))
       /\ Len(dOut) <= Len(dEvents)

\* C23 witness: of three records the first and the third have been merged
\* into one record under the first record's identifier, and the second is
\* returned after it unchanged.
C23_Witness ==
  /\ dPhase = "once" /\ Len(dEvents) = 3 /\ Len(dOut) = 2
  /\ MergeGroups(dEvents, dThreshold) = <<{1, 3}, {2}>>
  /\ dOut[1].externalId = dEvents[1].externalId
  /\ dEvents[3].externalId # dEvents[1].externalId
  /\ dOut[1].source = dEvents[1].source \o dEvents[3].source
  /\ dOut[2] = dEvents[2]

-----------------------------------------------------------------------------
(* Further claims about the daily workflow, under Spec *)

\* the position of a stage in runDailyScrape
StageRank(pc) ==
  CASE pc = "idle" -> 0 [] pc = "scrape" -> 1 [] pc = "log" -> 2
    [] pc = "dedup" -> 3 [] pc = "geocode" -> 4 [] pc = "weather" -> 5
    [] pc = "score" -> 6 [] pc = "store" -> 7 [] pc = "prune" -> 8
    [] pc = "completed" -> 9 [] pc = "catch" -> 9
    [] pc = "aborted" -> 10 [] pc = "threw" -> 10
\* a record as it was before processEvents added its coordinates
WithoutCoordinates(e) ==
  [e EXCEPT !.latitude = Undef, !.longitude = Undef,
            !.distanceFromPrague = Undef]
\* what C24 says of the locals of one run
StagesConsumePrevious(me) ==
  /\ me.seen.geo # <<>> =>
       /\ StageRank(me.pc) >= StageRank("geocode")
       /\ Len(me.seen.geo) <= Len(me.deduplicatedEvents)
       /\ \A k \in 1..Len(me.seen.geo) :
            me.seen.geo[k].externalId = me.deduplicatedEvents[k].externalId
  /\ (me.pc = "geocode" /\ me.i = 1) =>
       me.deduplicatedEvents
         = deduplicateEvents(getAllEvents(me.scraperResults), 8)
  /\ me.seen.upsert # <<>> =>
       /\ StageRank(me.pc) >= StageRank("store")
       /\ Len(me.scoredEvents) = Len(me.geocodedEvents)
       /\ Len(me.seen.weather) = Len(me.geocodedEvents)
  /\ me.seen.prune # <<>> => Len(me.seen.upsert) = Len(me.scoredEvents)
  /\ \A k \in 1..Len(me.seen.upsert) :
       /\ me.seen.upsert[k].externalId = me.scoredEvents[k].event.externalId
       /\ me.scoredEvents[k]
            = scoreEventForAllGroups(me.geocodedEvents[k], me.seen.weather[k])
       /\ \E j \in 1..Len(me.deduplicatedEvents) :
            WithoutCoordinates(me.geocodedEvents[k]) = me.deduplicatedEvents[j]

\* C24: within one run the stages execute in the order scrape, deduplicate,
\* resolve/filter, score, upsert, prune: a run never moves back to an
\* earlier stage, no record is geocoded before deduplication has finished,
\* none is upserted before every record has been scored, nothing is pruned
\* before the upsert loop has finished, and every row a run upserts is the
\* scoring of a record processEvents returned for a record deduplicateEvents
\* returned in that run.
C24_StagesInOrder ==
  /\ [](\A r \in Runs : StagesConsumePrevious(run[r]))
  /\ [][\A r \in Runs :
         /\ StageRank(run'[r].pc) >= StageRank(run[r].pc)
         /\ (run[r].pc = "store" /\ store' # store) =>
              \E k \in 1..Len(store') :
                store'[k] = RowOf(run[r].scoredEvents[run[r].i])]_vars

\* C24 witness: a run has completed after geocoding a record within the
\* radius, dropping another, scoring and upserting at least two records
\* and pruning.
C24_Witness ==
  \E r \in Runs :
    LET me == run[r]
    IN /\ me.pc = "completed"
       /\ Len(me.seen.upsert) >= 2
       /\ Len(me.geocodedEvents) < Len(me.deduplicatedEvents)
       /\ \E k \in 1..Len(me.geocodedEvents) :
            me.geocodedEvents[k].distanceFromPrague # Undef
       /\ me.seen.prune = <<TRUE>>

\* C25: runAllScrapers calls the scrapers one at a time in list order, and
\* the delay elapses between every two consecutive calls, whether the
\* earlier scraper returned or threw.
C25_DelayBetweenScrapers ==
  \A r \in Runs :
    LET trace == run[r].trace
        calls == Calls(trace)
    IN /\ Len(calls) <= Len(SCRAPERS)
       /\ \A k \in 1..Len(calls) : calls[k].scraper = SCRAPERS[k]
       /\ \A k \in 1..(Len(trace) - 1) :
            trace[k].kind = "call" => trace[k + 1].kind = "delay"

\* the stages of a run after the scrape
LaterStages ==
  {"deduplication", "geocoding", "scoring", "persistence", "pruning"}

-----------------------------------------------------------------------------
(* Claims about overlapping runs, under SpecOverlap *)

\* C27: runs are not mutually exclusive: while a run is in progress a
\* trigger is neither rejected nor queued, it starts the next run at once.
C27_TriggerStartsAtOnce ==
  \A r \in Runs :
    (started < MaxRuns /\ r = started + 1) =>
      /\ ENABLED TriggerRun(r, "manual")
      /\ ENABLED TriggerRun(r, "schedule")

\* C27 witness: a scheduled run and a manually triggered run are in
\* progress at the same time; the second has been answered from the geocode
\* cache entries and the forecast the first one fetched, and both have
\* upserted the same externalId.
C27_Witness ==
  /\ run[1].trigger = "schedule" /\ run[2].trigger = "manual"
  /\ ActiveRuns = {1, 2}
  /\ \E k \in 1..Len(run[2].lookups) :
       ~run[2].lookups[k].requested /\ run[2].lookups[k].result.found
  /\ run[1].weatherRequests = 1 /\ run[2].weatherRequests = 0
  /\ run[2].seen.weather # <<>>
  /\ \E j \in 1..Len(run[1].seen.upsert), k \in 1..Len(run[2].seen.upsert) :
       run[1].seen.upsert[j].externalId = run[2].seen.upsert[k].externalId

-----------------------------------------------------------------------------
(* Claims about termination, under SpecLive *)

\* C28: when every collaborator call returns or fails within its timeout,
\* every run that starts eventually completes or aborts; nothing cancels a
\* run (a run that has started never returns to idle) and no run is left
\* waiting in an intermediate stage (a run in progress is at a position
\* where its next step is pending).
C28_RunsTerminate ==
  /\ \A r \in Runs : (run[r].pc # "idle") ~> (run[r].pc \in Finished)
  /\ [](\A r \in Runs :
         run[r].pc \notin Finished \cup {"idle"} => run[r].pc \in Pending)
  /\ [][\A r \in Runs :
         /\ run[r].pc # "idle" => run'[r].pc # "idle"
         /\ run[r].pc \in Finished => run'[r] = run[r]]_vars

\* C28 witness: a run has aborted after it upserted records and the delete
\* of the old rows failed.
C28_Witness ==
  \E r \in Runs :
    /\ run[r].pc = "aborted" /\ run[r].seen.upsert # <<>>
    /\ run[r].seen.prune = <<FALSE>>

-----------------------------------------------------------------------------
(* Claims about the geocode cache, under SpecGeo *)

\* C29: once a geocoder request for an address has failed (it threw, or its
\* answer was empty) and the failure is cached, the entry of that cache key
\* stays not-found and no further request is sent for it, whatever the runs
\* do, until clearGeocodeCache is called.
C29_FailuresStayCached ==
  [][\A k \in GeoKeys :
       geocodeCache[k] = Entry(Null) =>
         \/ geocodeCache'[k] = Entry(Null) /\ geoRequests'[k] = geoRequests[k]
         \/ clearGeocodeCache]_vars

-----------------------------------------------------------------------------
(* Claims about the store after several runs, under Spec *)

\* the rows of the store that the runs of the behaviour wrote
WrittenRows ==
  {k \in 1..Len(store) :
     \E r \in Runs : \E u \in 1..Len(run[r].seen.upsert) :
       run[r].seen.upsert[u].externalId = store[k].event.externalId}

\* C30: when every run started so far has completed, no two rows the runs
\* wrote to the store are duplicates of each other for the deduplication
\* engine (composite score >= 0.8), whichever sources succeeded in each run.
C30_StoreFreeOfDuplicates ==
  (started > 0 /\ \A r \in Runs : run[r].pc \in {"idle", "completed"}) =>
    \A j, k \in WrittenRows :
      j < k => ~isDuplicate(store[j].event, store[k].event, 8)

====
